---- MODULE Spec2Model ----
(***************************************************************************)
(* The authentication routes of httpbin-hono (src/src/routes/              *)
(* authentication.ts): Basic, Bearer and the three Digest routes, with a   *)
(* client that builds Authorization headers the way the test helpers do.   *)
(*                                                                         *)
(* A string is a sequence of atoms.  An atom is one character ("a"), a     *)
(* byte outside printable ASCII ("\\x200") or a whole hexadecimal digest   *)
(* ("<SHA-256/64:...>").  A digest atom spells out the primitive, the      *)
(* number of hex characters kept and the text that was hashed, so that two *)
(* digests are equal exactly when primitive, length and text are equal:    *)
(* the hash functions are modelled as collision free.  The characters "<"  *)
(* and ">" are in no input alphabet of the model.                          *)
(***************************************************************************)
EXTENDS Integers, Sequences, FiniteSets, TLC

VARIABLES
    pc,      \* position of the request in flight: idle, recv, ha1, ha2, kd, verdict, done
    req,     \* the request: route, route parameters, method, Authorization header
    work,    \* the handler's locals across its awaits: authParams, uri, HA1, HA2, response
    ops,     \* the calls the handler has made so far: "parse", "hash", "nonce", "atob"
    resp,    \* the responses produced for the request in flight (a sequence)
    cli,     \* how the client built the request (ghost)
    base,    \* the header fields of the authenticated request a changed header started from (ghost)
    other,   \* a second request in flight, suspended at one of its awaits: pc, req, work, ops, resp
    seen,    \* one earlier request and the response it got (ghost)
    chal,    \* generateDigestChallenge on its own: arguments, header built, header parsed
    redir,   \* a client that follows the redirects of /redirect, /relative-redirect, /absolute-redirect
    stat,    \* a request to /status/:codes and its response
    cond,    \* a request to /etag/:etag with its conditional headers, and its response
    docs     \* the object of /spec.json that the requests share, and the requests in flight

\* the variables of the other specifications of this module
extra == <<other, seen, chal, redir, stat, cond, docs>>

vars == <<pc, req, work, ops, resp, cli, base, extra>>

-----------------------------------------------------------------------------
(* Characters *)

Ascii ==
    <<" ", "!", "\"", "#", "$", "%", "&", "'", "(", ")", "*", "+", ",", "-", ".", "/",
      "0", "1", "2", "3", "4", "5", "6", "7", "8", "9", ":", ";", "<", "=", ">", "?",
      "@", "A", "B", "C", "D", "E", "F", "G", "H", "I", "J", "K", "L", "M", "N", "O",
      "P", "Q", "R", "S", "T", "U", "V", "W", "X", "Y", "Z", "[", "\\", "]", "^", "_",
      "\\x96", "a", "b", "c", "d", "e", "f", "g", "h", "i", "j", "k", "l", "m", "n", "o",
      "p", "q", "r", "s", "t", "u", "v", "w", "x", "y", "z", "{", "|", "}", "~">>

\* String.fromCharCode for one byte
Chr(n) == IF n >= 32 /\ n <= 126 THEN Ascii[n - 31] ELSE "\\x" \o ToString(n)

\* charCodeAt of a printable character
CodeOf == [ch \in {Ascii[i] : i \in 1..Len(Ascii)} |-> 31 + (CHOOSE i \in 1..Len(Ascii) : Ascii[i] = ch)]

Code(ch) == CodeOf[ch]

B64 ==
    <<"A", "B", "C", "D", "E", "F", "G", "H", "I", "J", "K", "L", "M", "N", "O", "P",
      "Q", "R", "S", "T", "U", "V", "W", "X", "Y", "Z", "a", "b", "c", "d", "e", "f",
      "g", "h", "i", "j", "k", "l", "m", "n", "o", "p", "q", "r", "s", "t", "u", "v",
      "w", "x", "y", "z", "0", "1", "2", "3", "4", "5", "6", "7", "8", "9", "+", "/">>

B64Chars == {B64[i] : i \in 1..Len(B64)}

IsB64(ch) == ch \in B64Chars

B64IndexOf == [ch \in B64Chars |-> (CHOOSE i \in 1..Len(B64) : B64[i] = ch) - 1]

B64Index(ch) == B64IndexOf[ch]

\* the atoms that stand for one byte
ByteAtoms == {Chr(n) : n \in 0..255}

IsDigestAtom(ch) == ch \notin ByteAtoms

\* \w of the regular expressions; a digest atom stands for hex digits
WordChars == {B64[i] : i \in 1..62} \cup {"_"}

IsWordChar(ch) == ch \in WordChars \/ IsDigestAtom(ch)

StartsWith(s, p) == Len(s) >= Len(p) /\ SubSeq(s, 1, Len(p)) = p

\* String.prototype.substring(n)
Substring(s, n) == SubSeq(s, n + 1, Len(s))

RECURSIVE Join(_, _)
Join(parts, sep) ==
    IF Len(parts) = 0 THEN <<>>
    ELSE IF Len(parts) = 1 THEN parts[1]
    ELSE parts[1] \o sep \o Join(Tail(parts), sep)

\* index of the first ch at or after k, 0 when there is none
RECURSIVE FindChar(_, _, _)
FindChar(s, k, ch) ==
    IF k > Len(s) THEN 0
    ELSE IF s[k] = ch THEN k
    ELSE FindChar(s, k + 1, ch)

-----------------------------------------------------------------------------
(* Literals *)

Undefined == <<"undefined">>
Null == <<"null">>

\* JavaScript truthiness of a string | undefined | null
Truthy(v) == v # Undefined /\ v # Null /\ v # <<>>

sDigest == <<"D", "i", "g", "e", "s", "t", " ">>
sBasic == <<"B", "a", "s", "i", "c", " ">>
sBearer == <<"B", "e", "a", "r", "e", "r", " ">>
sMD5 == <<"M", "D", "5">>
sSHA256 == <<"S", "H", "A", "-", "2", "5", "6">>
sSHA512 == <<"S", "H", "A", "-", "5", "1", "2">>
sAuth == <<"a", "u", "t", "h">>
sAuthInt == <<"a", "u", "t", "h", "-", "i", "n", "t">>
sNever == <<"n", "e", "v", "e", "r">>
sGET == <<"G", "E", "T">>
sFakeRealm == <<"F", "a", "k", "e", " ", "R", "e", "a", "l", "m">>
kUsername == <<"u", "s", "e", "r", "n", "a", "m", "e">>
kRealm == <<"r", "e", "a", "l", "m">>
kNonce == <<"n", "o", "n", "c", "e">>
kUri == <<"u", "r", "i">>
kQop == <<"q", "o", "p">>
kNc == <<"n", "c">>
kCnonce == <<"c", "n", "o", "n", "c", "e">>
kResponse == <<"r", "e", "s", "p", "o", "n", "s", "e">>
kAlgorithm == <<"a", "l", "g", "o", "r", "i", "t", "h", "m">>
kStale == <<"s", "t", "a", "l", "e">>
sTrue == <<"t", "r", "u", "e">>
sInvalidQop ==
    <<"I", "n", "v", "a", "l", "i", "d", " ", "v", "a", "l", "u", "e", " ", "f", "o", "r",
      " ", "q", "o", "p">>
sInvalidAlgorithm ==
    <<"I", "n", "v", "a", "l", "i", "d", " ", "v", "a", "l", "u", "e", " ", "f", "o", "r",
      " ", "a", "l", "g", "o", "r", "i", "t", "h", "m">>
sBasicChallenge == sBasic \o kRealm \o <<"=", "\"">> \o sFakeRealm \o <<"\"">>
sBearerChallenge == <<"B", "e", "a", "r", "e", "r">>

-----------------------------------------------------------------------------
(* btoa and atob *)

\* btoa of a sequence of bytes
RECURSIVE BtoaBytes(_)
BtoaBytes(b) ==
    IF Len(b) = 0 THEN <<>>
    ELSE IF Len(b) = 1 THEN
        <<B64[(b[1] \div 4) + 1], B64[((b[1] % 4) * 16) + 1], "=", "=">>
    ELSE IF Len(b) = 2 THEN
        <<B64[(b[1] \div 4) + 1], B64[((b[1] % 4) * 16) + (b[2] \div 16) + 1],
          B64[((b[2] % 16) * 4) + 1], "=">>
    ELSE
        <<B64[(b[1] \div 4) + 1], B64[((b[1] % 4) * 16) + (b[2] \div 16) + 1],
          B64[((b[2] % 16) * 4) + (b[3] \div 64) + 1], B64[(b[3] % 64) + 1]>>
        \o BtoaBytes(SubSeq(b, 4, Len(b)))

Btoa(s) == BtoaBytes([i \in 1..Len(s) |-> Code(s[i])])

AsciiWhitespace == {" ", "\t", "\n", "\f", "\r"}

AtobThrows == <<"InvalidCharacterError">>

\* the bytes of base64 text without padding, whose length is not 1 modulo 4;
\* the bits left over in the last group are dropped
RECURSIVE DecodeB64(_)
DecodeB64(e) ==
    IF Len(e) < 2 THEN <<>>
    ELSE LET a == B64Index(e[1])
             b == B64Index(e[2])
         IN  IF Len(e) = 2 THEN <<Chr((a * 4) + (b \div 16))>>
             ELSE LET c == B64Index(e[3])
                  IN  IF Len(e) = 3
                      THEN <<Chr((a * 4) + (b \div 16)), Chr(((b % 16) * 16) + (c \div 4))>>
                      ELSE <<Chr((a * 4) + (b \div 16)), Chr(((b % 16) * 16) + (c \div 4)),
                             Chr(((c % 4) * 64) + B64Index(e[4]))>>
                           \o DecodeB64(SubSeq(e, 5, Len(e)))

\* atob: the forgiving-base64 decode; AtobThrows when it throws
Atob(s) ==
    LET d == SelectSeq(s, LAMBDA ch : ch \notin AsciiWhitespace)
        n == Len(d)
        e == IF n > 0 /\ n % 4 = 0 /\ d[n] = "="
             THEN IF d[n - 1] = "=" THEN SubSeq(d, 1, n - 2) ELSE SubSeq(d, 1, n - 1)
             ELSE d
    IN  IF Len(e) % 4 = 1 \/ \E i \in 1..Len(e) : ~IsB64(e[i])
        THEN AtobThrows
        ELSE DecodeB64(e)

\* String.prototype.split(":")
RECURSIVE Split(_, _)
Split(s, sep) ==
    LET k == FindChar(s, 1, sep)
    IN  IF k = 0 THEN <<s>>
        ELSE <<SubSeq(s, 1, k - 1)>> \o Split(SubSeq(s, k + 1, Len(s)), sep)

\* the i-th element of a destructured array
Nth(arr, i) == IF i <= Len(arr) THEN arr[i] ELSE Undefined

-----------------------------------------------------------------------------
(* Hashing *)

\* the atoms of s written one after the other
RECURSIVE Flat(_)
Flat(s) ==
    IF Len(s) = 0 THEN ""
    ELSE IF Len(s) = 1 THEN s[1]
    ELSE Flat(SubSeq(s, 1, Len(s) \div 2)) \o Flat(SubSeq(s, (Len(s) \div 2) + 1, Len(s)))

\* the first `keep` hex characters of the digest of `data` under `prim`
HexDigest(prim, keep, data) ==
    <<"<" \o prim \o "/" \o ToString(keep) \o ":" \o Flat(data) \o ">">>

calculateDigest(algorithm, data) ==
    IF algorithm = sMD5 THEN HexDigest("SHA-256", 64, data)
    ELSE IF algorithm = sSHA256 THEN HexDigest("SHA-256", 64, data)
    ELSE IF algorithm = sSHA512 THEN HexDigest("SHA-512", 128, data)
    ELSE HexDigest("SHA-256", 64, data)

md5Hash(data) == HexDigest("SHA-256", 32, data)

-----------------------------------------------------------------------------
(* parseDigestAuth, generateNonce, generateDigestChallenge *)

\* the last index of the run of word characters that starts at k
RECURSIVE WordEnd(_, _)
WordEnd(s, k) == IF k < Len(s) /\ IsWordChar(s[k + 1]) THEN WordEnd(s, k + 1) ELSE k

Put(params, key, value) ==
    [k \in (DOMAIN params) \cup {key} |-> IF k = key THEN value ELSE params[k]]

Get(params, key) == IF key \in DOMAIN params THEN params[key] ELSE Undefined

\* every match of /(\w+)=(?:"([^"]*)"|([^,]*))/g in s from index i on, each
\* stored as params[key] = match[2] || match[3] || ""
RECURSIVE RegexExecAll(_, _, _)
RegexExecAll(s, i, params) ==
    IF i > Len(s) THEN params
    ELSE IF ~IsWordChar(s[i]) THEN RegexExecAll(s, i + 1, params)
    ELSE LET e == WordEnd(s, i)
         IN  IF e = Len(s) \/ s[e + 1] # "="
             THEN RegexExecAll(s, e + 1, params)
             ELSE LET q == IF e + 2 <= Len(s) /\ s[e + 2] = "\""
                           THEN FindChar(s, e + 3, "\"")
                           ELSE 0
                      c == FindChar(s, e + 2, ",")
                      end == IF q > 0 THEN q + 1 ELSE IF c > 0 THEN c ELSE Len(s) + 1
                      value == IF q > 0 THEN SubSeq(s, e + 3, q - 1)
                               ELSE SubSeq(s, e + 2, end - 1)
                  IN  RegexExecAll(s, end, Put(params, SubSeq(s, i, e), value))

\* null, or the parameters of the header
\* null when no pair matches
parseDigestAuthNullWithoutPairs(authHeader) ==
    IF ~authHeader.present \/ authHeader.value = <<>>
       \/ ~StartsWith(authHeader.value, sDigest)
       \/ DOMAIN RegexExecAll(Substring(authHeader.value, 7), 1, <<>>) = {}
    THEN [isNull |-> TRUE, params |-> <<>>]
    ELSE [isNull |-> FALSE, params |-> RegexExecAll(Substring(authHeader.value, 7), 1, <<>>)]

parseDigestAuth(authHeader) ==
    IF ~authHeader.present \/ authHeader.value = <<>>
       \/ ~StartsWith(authHeader.value, sDigest)
    THEN [isNull |-> TRUE, params |-> <<>>]
    ELSE [isNull |-> FALSE, params |-> RegexExecAll(Substring(authHeader.value, 7), 1, <<>>)]

\* the test helper parseWWWAuthenticate
parseWWWAuthenticate(wwwAuth) == RegexExecAll(wwwAuth, 1, <<>>)

\* the number of random bytes of a nonce
NonceBytes == 16

\* the outcomes of crypto.getRandomValues the model draws from
MaxSeeds == 2
RandomBytes == {[i \in 1..NonceBytes |-> (255 + ((k - 1) * i * 83)) % 256] : k \in 1..MaxSeeds}

Replace(s, from, to) == [i \in 1..Len(s) |-> IF s[i] = from THEN to ELSE s[i]]

\* the base64 text with its padding kept
generateNoncePadded(randomBytes) ==
    Replace(Replace(BtoaBytes(randomBytes), "+", "-"), "/", "_")

generateNonce(randomBytes) ==
    SelectSeq(Replace(Replace(BtoaBytes(randomBytes), "+", "-"), "/", "_"),
              LAMBDA ch : ch # "=")

\* the challenge without its nonce
generateDigestChallengeNoNonce(realm, qop, algorithm, stale, randomBytes) ==
    sDigest \o kRealm \o <<"=", "\"">> \o realm \o <<"\"">>
    \o (IF Truthy(qop) THEN <<",", " ">> \o kQop \o <<"=", "\"">> \o qop \o <<"\"">> ELSE <<>>)
    \o (IF Truthy(algorithm) THEN <<",", " ">> \o kAlgorithm \o <<"=">> \o algorithm ELSE <<>>)
    \o (IF stale THEN <<",", " ">> \o kStale \o <<"=">> \o sTrue ELSE <<>>)

\* the stale flag written whatever its value
generateDigestChallengeStaleAlways(realm, qop, algorithm, stale, randomBytes) ==
    sDigest \o kRealm \o <<"=", "\"">> \o realm \o <<"\"", ",", " ">>
    \o kNonce \o <<"=", "\"">> \o generateNonce(randomBytes) \o <<"\"">>
    \o (IF Truthy(qop) THEN <<",", " ">> \o kQop \o <<"=", "\"">> \o qop \o <<"\"">> ELSE <<>>)
    \o (IF Truthy(algorithm) THEN <<",", " ">> \o kAlgorithm \o <<"=">> \o algorithm ELSE <<>>)
    \o <<",", " ">> \o kStale \o <<"=">>
    \o (IF stale THEN sTrue ELSE <<"f", "a", "l", "s", "e">>)

\* the algorithm written before the qop
generateDigestChallengeAlgorithmFirst(realm, qop, algorithm, stale, randomBytes) ==
    sDigest \o kRealm \o <<"=", "\"">> \o realm \o <<"\"", ",", " ">>
    \o kNonce \o <<"=", "\"">> \o generateNonce(randomBytes) \o <<"\"">>
    \o (IF Truthy(algorithm) THEN <<",", " ">> \o kAlgorithm \o <<"=">> \o algorithm ELSE <<>>)
    \o (IF Truthy(qop) THEN <<",", " ">> \o kQop \o <<"=", "\"">> \o qop \o <<"\"">> ELSE <<>>)
    \o (IF stale THEN <<",", " ">> \o kStale \o <<"=">> \o sTrue ELSE <<>>)

generateDigestChallenge(realm, qop, algorithm, stale, randomBytes) ==
    sDigest \o kRealm \o <<"=", "\"">> \o realm \o <<"\"", ",", " ">>
    \o kNonce \o <<"=", "\"">> \o generateNonce(randomBytes) \o <<"\"">>
    \o (IF Truthy(qop) THEN <<",", " ">> \o kQop \o <<"=", "\"">> \o qop \o <<"\"">> ELSE <<>>)
    \o (IF Truthy(algorithm) THEN <<",", " ">> \o kAlgorithm \o <<"=">> \o algorithm ELSE <<>>)
    \o (IF stale THEN <<",", " ">> \o kStale \o <<"=">> \o sTrue ELSE <<>>)

-----------------------------------------------------------------------------
(* checkDigestAuth, split at its awaits *)

\* the early returns: a missing username, realm or nonce, or another user
\* the comparison of the username with the user of the route left out
CheckPreconditionsAnyUser(authParams, username) ==
    /\ Truthy(Get(authParams, kUsername))
    /\ Truthy(Get(authParams, kRealm))
    /\ Truthy(Get(authParams, kNonce))

CheckPreconditions(authParams, username) ==
    /\ Truthy(Get(authParams, kUsername))
    /\ Truthy(Get(authParams, kRealm))
    /\ Truthy(Get(authParams, kNonce))
    /\ Get(authParams, kUsername) = username

\* every algorithm hashed by calculateDigest
DigestOfGeneric(algorithm, data) == calculateDigest(algorithm, data)

DigestOf(algorithm, data) ==
    IF algorithm = sMD5 THEN md5Hash(data) ELSE calculateDigest(algorithm, data)

A1(authParams, username, password) ==
    username \o <<":">> \o Get(authParams, kRealm) \o <<":">> \o password

\* the hash of the (empty) entity body in A2 when qop is auth-int
A2EntityBody(qop, method, uri) ==
    IF qop = sAuthInt
    THEN method \o <<":">> \o uri \o <<":">> \o md5Hash(<<>>)
    ELSE method \o <<":">> \o uri

A2(qop, method, uri) ==
    IF Truthy(qop) THEN method \o <<":">> \o uri ELSE method \o <<":">> \o uri

\* the qop of the header hashed instead of the qop of the route
KDHeaderQop(authParams, qop, HA1, HA2) ==
    IF Truthy(qop) /\ Truthy(Get(authParams, kNc)) /\ Truthy(Get(authParams, kCnonce))
    THEN Join(<<HA1, Get(authParams, kNonce), Get(authParams, kNc),
                Get(authParams, kCnonce), Get(authParams, kQop), HA2>>, <<":">>)
    ELSE Join(<<HA1, Get(authParams, kNonce), HA2>>, <<":">>)

\* the RFC 2069 form whatever the header carries
KDLegacy(authParams, qop, HA1, HA2) ==
    Join(<<HA1, Get(authParams, kNonce), HA2>>, <<":">>)

KD(authParams, qop, HA1, HA2) ==
    IF Truthy(qop) /\ Truthy(Get(authParams, kNc)) /\ Truthy(Get(authParams, kCnonce))
    THEN Join(<<HA1, Get(authParams, kNonce), Get(authParams, kNc),
                Get(authParams, kCnonce), qop, HA2>>, <<":">>)
    ELSE Join(<<HA1, Get(authParams, kNonce), HA2>>, <<":">>)

ResponseMatches(response, authParams) == response = Get(authParams, kResponse)

-----------------------------------------------------------------------------
(* Requests and responses *)

DigestRoutes == {"digest3", "digest4", "digest5"}

NoHeader == [present |-> FALSE, value |-> <<>>]

NoReq ==
    [route |-> "none", qop |-> <<>>, user |-> <<>>, passwd |-> <<>>, algorithm |-> <<>>,
     staleAfter |-> <<>>, method |-> <<>>, header |-> NoHeader]

NoWork ==
    [authParams |-> <<>>, uri |-> <<>>, HA1 |-> Undefined, HA2 |-> Undefined,
     response |-> Undefined, isValid |-> FALSE]

NoBody == [kind |-> "null", text |-> <<>>, authenticated |-> FALSE, user |-> <<>>, token |-> <<>>]

TextBody(t) == [NoBody EXCEPT !.kind = "text", !.text = t]

\* c.body(data, status, headers) and c.json(object): `at` is the source line of the return
Response(status, body, wwwAuth, at) ==
    [status |-> status, body |-> body, wwwAuth |-> wwwAuth, at |-> at]

AuthenticatedUser(user, at) ==
    Response(200, [NoBody EXCEPT !.kind = "json", !.authenticated = TRUE, !.user = user],
             Null, at)

AuthenticatedToken(token, at) ==
    Response(200, [NoBody EXCEPT !.kind = "json", !.authenticated = TRUE, !.token = token],
             Null, at)

\* the handler threw: the framework's default error handler answers 500
InternalServerError(at) == Response(500, TextBody(<<"Internal Server Error">>), Null, at)

\* url.pathname + url.search of the request URL
RequestUri(r) ==
    <<"/", "d", "i", "g", "e", "s", "t", "-", "a", "u", "t", "h", "/">>
    \o r.qop \o <<"/">> \o r.user \o <<"/">> \o r.passwd
    \o (IF r.route \in {"digest4", "digest5"} THEN <<"/">> \o r.algorithm ELSE <<>>)
    \o (IF r.route = "digest5" THEN <<"/">> \o r.staleAfter ELSE <<>>)

\* c.req.header(name): a header value carries no leading or trailing whitespace
RECURSIVE TrimLeft(_)
TrimLeft(s) == IF Len(s) > 0 /\ s[1] \in {" ", "\t"} THEN TrimLeft(Tail(s)) ELSE s

RECURSIVE TrimRight(_)
TrimRight(s) ==
    IF Len(s) > 0 /\ s[Len(s)] \in {" ", "\t"} THEN TrimRight(SubSeq(s, 1, Len(s) - 1)) ELSE s

HeaderValue(raw) == [present |-> TRUE, value |-> TrimRight(TrimLeft(raw))]

-----------------------------------------------------------------------------
(* Route validation and the staleness policy *)

ValidQop(qop) == ~(qop # sAuth /\ qop # sAuthInt)

\* the validation of the algorithm left out
ValidAlgorithmSkipped(algorithm) == TRUE

ValidAlgorithm(algorithm) ==
    ~(algorithm # sMD5 /\ algorithm # sSHA256 /\ algorithm # sSHA512)

IsDigit(ch) == ch \in {"0", "1", "2", "3", "4", "5", "6", "7", "8", "9"}

RECURSIVE DigitsValue(_, _, _)
DigitsValue(s, k, acc) ==
    IF k <= Len(s) /\ IsDigit(s[k])
    THEN DigitsValue(s, k + 1, (acc * 10) + (Code(s[k]) - 48))
    ELSE acc

\* parseInt(s, 10): leading whitespace, a sign, then the longest run of digits;
\* NaN when there is no digit
ParseInt(s) ==
    LET t == TrimLeft(s)
        neg == Len(t) > 0 /\ t[1] = "-"
        u == IF Len(t) > 0 /\ t[1] \in {"-", "+"} THEN Tail(t) ELSE t
    IN  IF Len(u) = 0 \/ ~IsDigit(u[1]) THEN [nan |-> TRUE, value |-> 0]
        ELSE [nan |-> FALSE, value |-> IF neg THEN 0 - DigitsValue(u, 1, 0)
                                              ELSE DigitsValue(u, 1, 0)]

\* stale for every number, whatever its sign
shouldBeStaleAnyNumber(staleAfter) ==
    /\ staleAfter # sNever
    /\ ~ParseInt(staleAfter).nan

\* the threshold compared with < instead of <=
shouldBeStaleStrict(staleAfter) ==
    /\ staleAfter # sNever
    /\ ~ParseInt(staleAfter).nan
    /\ ParseInt(staleAfter).value < 0

shouldBeStale(staleAfter) ==
    /\ staleAfter # sNever
    /\ ~ParseInt(staleAfter).nan
    /\ ParseInt(staleAfter).value <= 0

\* the algorithm and stale arguments each route passes on
RouteAlgorithm(r) == IF r.route = "digest3" THEN sMD5 ELSE r.algorithm

ChallengeAlgorithm(r) == IF r.route = "digest3" THEN Null ELSE r.algorithm

ChallengeStale(r) == IF r.route = "digest5" THEN shouldBeStale(r.staleAfter) ELSE FALSE

\* a challenge that marks a failed check as stale
ChallengeTelling(r, at, randomBytes) ==
    Response(401, NoBody,
             generateDigestChallenge(sFakeRealm, r.qop, ChallengeAlgorithm(r),
                                     ChallengeStale(r) \/ at = "invalid", randomBytes),
             at)

Challenge(r, at, randomBytes) ==
    Response(401, NoBody,
             generateDigestChallenge(sFakeRealm, r.qop, ChallengeAlgorithm(r),
                                     ChallengeStale(r), randomBytes),
             at)

-----------------------------------------------------------------------------
(* The handlers *)

Respond(r, calls) ==
    /\ resp' = Append(resp, r)
    /\ ops' = ops \o calls
    /\ pc' = "done"

\* !authHeader || !authHeader.startsWith("Basic ")
LacksBasicScheme(authHeader) ==
    ~authHeader.present \/ authHeader.value = <<>> \/ ~StartsWith(authHeader.value, sBasic)

\* the prefix tested without its space
LacksBearerWord(authHeader) ==
    ~authHeader.present \/ authHeader.value = <<>>
    \/ ~StartsWith(authHeader.value, sBearerChallenge)

\* !authHeader || !authHeader.startsWith("Bearer ")
LacksBearerScheme(authHeader) ==
    ~authHeader.present \/ authHeader.value = <<>> \/ ~StartsWith(authHeader.value, sBearer)

\* GET /basic-auth/:user/:passwd
BasicAuth ==
    /\ pc = "recv"
    /\ req.route = "basic"
    /\ IF LacksBasicScheme(req.header)
       THEN Respond(Response(401, NoBody, sBasicChallenge, "noheader"), <<>>)
       ELSE LET credentials == Atob(Substring(req.header.value, 6))
                parts == Split(credentials, ":")
                providedUser == Nth(parts, 1)
                providedPasswd == Nth(parts, 2)
            IN  IF credentials = AtobThrows
                THEN Respond(InternalServerError("atob"), <<"atob">>)
                ELSE IF providedUser # req.user \/ providedPasswd # req.passwd
                THEN Respond(Response(401, NoBody, sBasicChallenge, "invalid"), <<"atob">>)
                ELSE Respond(AuthenticatedUser(req.user, "ok"), <<"atob">>)
    /\ UNCHANGED <<req, work, cli, base, extra>>

\* GET /bearer
Bearer ==
    /\ pc = "recv"
    /\ req.route = "bearer"
    /\ IF LacksBearerScheme(req.header)
       THEN Respond(Response(401, NoBody, sBearerChallenge, "noheader"), <<>>)
       ELSE Respond(AuthenticatedToken(Substring(req.header.value, 7), "ok"), <<>>)
    /\ UNCHANGED <<req, work, cli, base, extra>>

\* GET /digest-auth/:qop/:user/:passwd[/:algorithm[/:stale_after]], from the start
\* of the handler to the first await of checkDigestAuth
DigestStart ==
    /\ pc = "recv"
    /\ req.route \in DigestRoutes
    /\ \E randomBytes \in RandomBytes :
          LET parsed == parseDigestAuth(req.header)
          IN  IF ~ValidQop(req.qop)
              THEN /\ Respond(Response(400, TextBody(sInvalidQop), Null, "qop"), <<>>)
                   /\ UNCHANGED work
              ELSE IF req.route # "digest3" /\ ~ValidAlgorithm(req.algorithm)
              THEN /\ Respond(Response(400, TextBody(sInvalidAlgorithm), Null, "algorithm"),
                              <<>>)
                   /\ UNCHANGED work
              ELSE IF ~req.header.present \/ req.header.value = <<>>
              THEN /\ Respond(Challenge(req, "noheader", randomBytes), <<"nonce">>)
                   /\ UNCHANGED work
              ELSE IF parsed.isNull
              THEN /\ Respond(Challenge(req, "unparseable", randomBytes),
                              <<"parse", "nonce">>)
                   /\ UNCHANGED work
              ELSE /\ work' = [NoWork EXCEPT !.authParams = parsed.params,
                                             !.uri = RequestUri(req)]
                   /\ ops' = ops \o <<"parse">>
                   /\ pc' = IF CheckPreconditions(parsed.params, req.user)
                            THEN "ha1" ELSE "verdict"
                   /\ UNCHANGED resp
    /\ UNCHANGED <<req, cli, base, extra>>

\* HA1 = await hash(A1)
DigestHA1 ==
    /\ pc = "ha1"
    /\ work' = [work EXCEPT
                  !.HA1 = DigestOf(RouteAlgorithm(req),
                                   A1(work.authParams, req.user, req.passwd))]
    /\ ops' = Append(ops, "hash")
    /\ pc' = "ha2"
    /\ UNCHANGED <<req, resp, cli, base, extra>>

\* HA2 = await hash(A2)
DigestHA2 ==
    /\ pc = "ha2"
    /\ work' = [work EXCEPT
                  !.HA2 = DigestOf(RouteAlgorithm(req), A2(req.qop, req.method, work.uri))]
    /\ ops' = Append(ops, "hash")
    /\ pc' = "kd"
    /\ UNCHANGED <<req, resp, cli, base, extra>>

\* HA1 kept in a variable that the requests in flight share
DigestKDShared ==
    /\ pc = "kd"
    /\ LET HA1 == IF other.work.HA1 # Undefined THEN other.work.HA1 ELSE work.HA1
           response == DigestOf(RouteAlgorithm(req), KD(work.authParams, req.qop, HA1, work.HA2))
       IN  work' = [work EXCEPT !.response = response,
                                !.isValid = ResponseMatches(response, work.authParams)]
    /\ ops' = Append(ops, "hash")
    /\ pc' = "verdict"
    /\ UNCHANGED <<req, resp, cli, base, extra>>

\* response = await hash(KD); return response === authParams["response"]
DigestKD ==
    /\ pc = "kd"
    /\ LET response == DigestOf(RouteAlgorithm(req),
                                KD(work.authParams, req.qop, work.HA1, work.HA2))
       IN  work' = [work EXCEPT !.response = response,
                                !.isValid = ResponseMatches(response, work.authParams)]
    /\ ops' = Append(ops, "hash")
    /\ pc' = "verdict"
    /\ UNCHANGED <<req, resp, cli, base, extra>>

\* the handler after await checkDigestAuth(...)
DigestVerdict ==
    /\ pc = "verdict"
    /\ \E randomBytes \in RandomBytes :
          IF ~work.isValid
          THEN Respond(Challenge(req, "invalid", randomBytes), <<"nonce">>)
          ELSE Respond(AuthenticatedUser(req.user, "ok"), <<>>)
    /\ UNCHANGED <<req, work, cli, base, extra>>

-----------------------------------------------------------------------------
(* The client: the requests the model sends *)

QopParams == {sAuth, sAuthInt, <<"b", "o", "g", "u", "s">>}
AlgorithmParams == {sMD5, sSHA256, sSHA512, <<"R", "O", "T", "1", "3">>}
StaleAfterParams == {sNever, <<"0">>, <<"5">>, <<"-", "1">>, <<"a", "b", "c">>}

BasicPairs ==
    {[user |-> <<"u">>, passwd |-> <<"p">>],
     [user |-> <<"a", "b">>, passwd |-> <<"c">>],
     [user |-> <<"u">>, passwd |-> <<"p", ":", "q">>]}

Requests ==
    {[NoReq EXCEPT !.route = "basic", !.user = p.user, !.passwd = p.passwd, !.method = sGET]
        : p \in BasicPairs}
    \cup {[NoReq EXCEPT !.route = "bearer", !.method = sGET]}
    \cup {[NoReq EXCEPT !.route = "digest3", !.qop = q, !.user = <<"u">>, !.passwd = <<"p">>,
                        !.method = sGET] : q \in QopParams}
    \cup {[NoReq EXCEPT !.route = "digest4", !.qop = q, !.user = <<"u">>, !.passwd = <<"p">>,
                        !.algorithm = a, !.method = sGET]
            : q \in QopParams, a \in AlgorithmParams}
    \cup {[NoReq EXCEPT !.route = "digest5", !.qop = q, !.user = <<"u">>, !.passwd = <<"p">>,
                        !.algorithm = a, !.staleAfter = t, !.method = sGET]
            : q \in QopParams, a \in AlgorithmParams, t \in StaleAfterParams}

\* parameters of which one is repeated, one is no pair and one has no value
sRepeatedKey == <<"a", "=", "\"", "1", "\"", ",", " ", "a", "=", "2", ",", " ", "j", "u", "n", "k", ",", " ", "b", "=">>

\* header values sent as they are, to every route
RawHeaders ==
    {<<>>,
     sBasic,
     sBasic \o Btoa(<<"u", ":", "p">>),
     sBasic \o Btoa(<<"u", "p">>),
     sBearer,
     sBearer \o <<"t">>,
     sBearer \o <<" ", "t">>,
     <<"b", "e", "a", "r", "e", "r", " ", "t">>,
     sDigest,
     sDigest \o <<"i", "n", "v", "a", "l", "i", "d">>,
     sDigest \o <<"=">>,
     sDigest \o sRepeatedKey}

\* the hash of the test helper: SHA-256, SHA-512, or the stand-in for MD5
ClientHash(algorithm, data) ==
    IF algorithm = sSHA256 THEN HexDigest("SHA-256", 64, data)
    ELSE IF algorithm = sSHA512 THEN HexDigest("SHA-512", 128, data)
    ELSE HexDigest("SHA-256", 32, data)

OrEmpty(v) == IF Truthy(v) THEN v ELSE <<>>

\* the response of makeDigestAuthHeader ("helper"), and the response of
\* section 4.3 of the specification ("rfc"), which hashes the entity body
\* into HA2 when qop is auth-int
ClientResponse(v, variant) ==
    LET ha1 == ClientHash(v.algorithm,
                          Join(<<v.username, OrEmpty(v.realm), v.password>>, <<":">>))
        ha2 == IF variant = "rfc" /\ v.qop = sAuthInt
               THEN ClientHash(v.algorithm,
                               Join(<<v.method, v.uri, ClientHash(v.algorithm, v.body)>>,
                                    <<":">>))
               ELSE ClientHash(v.algorithm, Join(<<v.method, v.uri>>, <<":">>))
        a3 == IF Truthy(v.qop) /\ Truthy(v.cnonce) /\ Truthy(v.nc)
              THEN Join(<<ha1, v.nonce, v.nc, v.cnonce, v.qop, ha2>>, <<":">>)
              ELSE Join(<<ha1, v.nonce, ha2>>, <<":">>)
    IN  ClientHash(v.algorithm, a3)

Quoted(key, value) == key \o <<"=", "\"">> \o value \o <<"\"">>

Bare(key, value) == key \o <<"=">> \o value

\* the header of makeDigestAuthHeader; a field that is null is left out
makeDigestAuthHeader(f) ==
    sDigest
    \o Join(SelectSeq(
                <<IF f.username # Null THEN Quoted(kUsername, f.username) ELSE Null,
                  IF f.response # Null THEN Quoted(kResponse, f.response) ELSE Null,
                  IF f.uri # Null THEN Quoted(kUri, f.uri) ELSE Null,
                  IF f.nonce # Null THEN Quoted(kNonce, f.nonce) ELSE Null,
                  IF f.realm # Null THEN Quoted(kRealm, f.realm) ELSE Null,
                  IF Truthy(f.algorithm) THEN Quoted(kAlgorithm, f.algorithm) ELSE Null,
                  IF Truthy(f.cnonce) THEN Quoted(kCnonce, f.cnonce) ELSE Null,
                  IF Truthy(f.nc) THEN Bare(kNc, f.nc) ELSE Null,
                  IF Truthy(f.qop) THEN Bare(kQop, f.qop) ELSE Null>>,
                LAMBDA part : part # Null),
            <<",", " ">>)

\* what a client that follows the challenge of route r puts into its header
Honest(r, realm, nonce) ==
    [username |-> r.user, password |-> r.passwd, method |-> r.method, uri |-> RequestUri(r),
     nonce |-> nonce, realm |-> realm, algorithm |-> ChallengeAlgorithm(r), qop |-> r.qop,
     cnonce |-> <<"c">>, nc |-> <<"0", "0", "0", "0", "0", "0", "0", "1">>, body |-> <<>>]

Fields(v, response) ==
    [username |-> v.username, response |-> response, uri |-> v.uri, nonce |-> v.nonce,
     realm |-> v.realm, algorithm |-> v.algorithm, cnonce |-> v.cnonce, nc |-> v.nc,
     qop |-> v.qop]

\* the values a single field may be changed to: another text, the empty text
\* (key=""), or null (the field left out)
FieldValues ==
    [username |-> {<<"v">>, <<>>, Null},
     password |-> {<<"x">>},
     realm |-> {<<"R">>, <<>>, Null},
     nonce |-> {<<"n">>, <<>>, Null},
     uri |-> {<<"/", "x">>, Null},
     algorithm |-> {sMD5, sSHA256, Null},
     qop |-> {sAuth, sAuthInt},
     cnonce |-> {<<"d">>, Null},
     nc |-> {<<"2">>, Null},
     response |-> {<<"0">>, <<>>, Null}]

\* a deviation changes one field in the header only ("hdr"), or in the header
\* and in the values the response is computed from ("both"), or computes the
\* response with another password or without nc ("cmp"); the helper cannot
\* compute with a null username, nonce or uri
Deviations(v) ==
    {[mode |-> "none", key |-> "none", value |-> Null]}
    \cup {[mode |-> "cmp", key |-> "password", value |-> x] : x \in FieldValues["password"]}
    \cup {[mode |-> "cmp", key |-> "nc", value |-> Null]}
    \cup UNION {{[mode |-> "hdr", key |-> k, value |-> x]
                    : x \in FieldValues[k] \ (IF k = "response" THEN {} ELSE {v[k]})}
                    : k \in (DOMAIN FieldValues) \ {"password"}}
    \cup UNION {{[mode |-> "both", key |-> k, value |-> x]
                    : x \in FieldValues[k] \ (IF k \in {"username", "nonce", "uri"}
                                              THEN {Null, v[k]} ELSE {v[k]})}
                    : k \in (DOMAIN FieldValues) \ {"response", "password"}}

Deviate(v, d, mode) ==
    IF d.mode \in {mode, "both"} /\ d.key \in DOMAIN v THEN [v EXCEPT ![d.key] = d.value]
    ELSE v

\* the header fields of a client that deviates from Honest by d
DeviatedFields(v, d, variant) ==
    LET f == Fields(Deviate(v, d, "hdr"), ClientResponse(Deviate(v, d, "cmp"), variant))
    IN  IF d.mode = "hdr" /\ d.key = "response" THEN [f EXCEPT !.response = d.value] ELSE f

-----------------------------------------------------------------------------
(* The client's actions *)

NoFields ==
    [username |-> Null, response |-> Null, uri |-> Null, nonce |-> Null, realm |-> Null,
     algorithm |-> Null, cnonce |-> Null, nc |-> Null, qop |-> Null]

NoClient == [kind |-> "none"]

\* the characters a single character of the encoded credentials is replaced by
ReplacementChars == {"A", "x", "F", "=", "!", " "}

\* the texts a client encodes as Basic credentials
BasicTexts ==
    {Join(<<p.user, p.passwd>>, <<":">>) : p \in BasicPairs}
    \cup {<<"u", ":", "p", ":", "e">>, <<"u", "p">>, <<"u", ":", "x">>}

\* the nonce of a client that never asked for a challenge
OwnNonce == <<"n", "0">>

Send(r, header, client, fields) ==
    /\ req' = [r EXCEPT !.header = header]
    /\ cli' = client
    /\ base' = fields
    /\ pc' = "recv"
    /\ work' = NoWork
    /\ ops' = <<>>
    /\ resp' = <<>>
    /\ UNCHANGED extra

\* a request without an Authorization header
SendAbsent == pc = "idle" /\ \E r \in Requests : Send(r, NoHeader, [kind |-> "absent"], NoFields)

\* a request with an arbitrary Authorization header
SendRaw ==
    /\ pc = "idle"
    /\ \E r \in Requests, raw \in RawHeaders :
        Send(r, HeaderValue(raw), [kind |-> "raw", raw |-> raw], NoFields)

\* Basic credentials: btoa(text), with at most one character replaced
SendBasic ==
    /\ pc = "idle"
    /\ \E r \in Requests, text \in BasicTexts :
        /\ r.route = "basic"
        /\ \E pos \in 0..Len(Btoa(text)), ch \in ReplacementChars :
              LET encoded == Btoa(text)
                  sent == IF pos = 0 THEN encoded ELSE [encoded EXCEPT ![pos] = ch]
              IN  /\ pos > 0 => ch # encoded[pos]
                  /\ pos = 0 => ch = "A"
                  /\ Send(r, HeaderValue(sBasic \o sent),
                          [kind |-> "basic", text |-> text, pos |-> pos, ch |-> ch],
                          NoFields)

\* a Digest header with a nonce of the client's own
SendDigest ==
    /\ pc = "idle"
    /\ \E r \in Requests, variant \in {"helper", "rfc"} :
        /\ r.route \in DigestRoutes
        /\ \E d \in Deviations(Honest(r, sFakeRealm, OwnNonce)) :
              LET f == DeviatedFields(Honest(r, sFakeRealm, OwnNonce), d, variant)
              IN  /\ variant = "rfc" => d.mode = "none"
                  /\ Send(r, HeaderValue(makeDigestAuthHeader(f)),
                          [kind |-> "digest", flow |-> "fresh", variant |-> variant,
                           dev |-> d, fields |-> f, changed |-> "none"],
                          NoFields)

\* the client answers the challenge of a 401: realm and nonce are read from
\* WWW-Authenticate as the tests do
Resubmit ==
    /\ pc = "done"
    /\ req.route \in DigestRoutes
    /\ resp[1].status = 401
    /\ \E variant \in {"helper", "rfc"} :
          LET params == parseWWWAuthenticate(resp[1].wwwAuth)
              realm == IF Truthy(Get(params, kRealm)) THEN Get(params, kRealm) ELSE sFakeRealm
              v == Honest(req, realm, Get(params, kNonce))
              f == Fields(v, ClientResponse(v, variant))
          IN  Send(req, HeaderValue(makeDigestAuthHeader(f)),
                   [kind |-> "digest", flow |-> "challenged", variant |-> variant,
                    dev |-> [mode |-> "none", key |-> "none", value |-> Null],
                    fields |-> f, changed |-> "none"],
                   NoFields)

\* the fields of the header that a client changes before it sends it again
ChangedKeys == {"nc", "cnonce", "nonce", "uri", "algorithm"}

\* after a 200 the client sends the same header again with one field changed
\* and the response field as it was
Change ==
    /\ pc = "done"
    /\ req.route \in DigestRoutes
    /\ resp[1].status = 200
    /\ cli.changed = "none"
    /\ cli.dev.mode \in {"none", "both", "cmp"}
    /\ \E k \in ChangedKeys :
          \E x \in FieldValues[k] \ {cli.fields[k]} :
              LET f == [cli.fields EXCEPT ![k] = x]
              IN  Send(req, HeaderValue(makeDigestAuthHeader(f)),
                       [cli EXCEPT !.fields = f, !.changed = k],
                       cli.fields)

\* the client is done with the exchange
Close ==
    /\ pc = "done"
    /\ pc' = "idle"
    /\ req' = NoReq
    /\ work' = NoWork
    /\ ops' = <<>>
    /\ resp' = <<>>
    /\ cli' = NoClient
    /\ base' = NoFields
    /\ UNCHANGED extra

-----------------------------------------------------------------------------
(* The specification *)

\* no request in flight on the authentication routes
AuthIdle ==
    /\ pc = "idle"
    /\ req = NoReq
    /\ work = NoWork
    /\ ops = <<>>
    /\ resp = <<>>
    /\ cli = NoClient
    /\ base = NoFields

NoOther == [pc |-> "idle", req |-> NoReq, work |-> NoWork, ops |-> <<>>, resp |-> <<>>]

NoSeen == [req |-> NoReq, status |-> 0, body |-> NoBody]

NoChal == [pc |-> "none"]

NoRedir == [pc |-> "none"]

NoStat == [pc |-> "none"]

NoCond == [pc |-> "none"]

NoDocs == [pc |-> "none"]

Init ==
    /\ AuthIdle
    /\ other = NoOther
    /\ seen = NoSeen
    /\ chal = NoChal
    /\ redir = NoRedir
    /\ stat = NoStat
    /\ cond = NoCond
    /\ docs = NoDocs

Next ==
    \/ SendAbsent
    \/ SendRaw
    \/ SendBasic
    \/ SendDigest
    \/ Resubmit
    \/ Change
    \/ Close
    \/ BasicAuth
    \/ Bearer
    \/ DigestStart
    \/ DigestHA1
    \/ DigestHA2
    \/ DigestKD
    \/ DigestVerdict

Spec == Init /\ [][Next]_vars

-----------------------------------------------------------------------------
(* The claims *)

Done == pc = "done"

DigestDone == Done /\ req.route \in DigestRoutes

SupportedQops == {sAuth, sAuthInt}

SupportedAlgorithms == {sMD5, sSHA256, sSHA512}

RouteIsValid ==
    /\ req.qop \in SupportedQops
    /\ req.route \in {"digest4", "digest5"} => req.algorithm \in SupportedAlgorithms

HashCalls == Len(SelectSeq(ops, LAMBDA o : o = "hash"))

ChallengePrefix ==
    <<"D", "i", "g", "e", "s", "t", " ", "r", "e", "a", "l", "m", "=", "\"", "F", "a", "k",
      "e", " ", "R", "e", "a", "l", "m", "\"", ",", " ", "n", "o", "n", "c", "e", "=", "\"">>

\* C1 (as stated): on every valid Digest route, the client that answers the
\* challenge of a 401 with the response of section 4.3 (the entity-body hash
\* in HA2 when qop is auth-int) is answered 200 with {authenticated: true, user}.
C1_ChallengeResponseSucceeds ==
    (DigestDone /\ RouteIsValid /\ cli.kind = "digest" /\ cli.flow = "challenged"
        /\ cli.variant = "rfc" /\ cli.changed = "none")
    => /\ resp[1].status = 200
       /\ resp[1].body.kind = "json" /\ resp[1].body.authenticated
       /\ resp[1].body.user = req.user

\* C2: a Digest route whose qop, or (4 and 5 segments) whose algorithm, is not
\* supported answers 400 with the text that names the parameter and no
\* WWW-Authenticate, whatever the Authorization header is, and the handler has
\* parsed no header, generated no nonce and hashed nothing.
C2_RouteValidationFirst ==
    (req.route \in DigestRoutes /\ ~RouteIsValid)
    => /\ pc \in {"recv", "done"}
       /\ ops = <<>>
       /\ Done => /\ Len(resp) = 1
                  /\ resp[1].status = 400
                  /\ resp[1].body.kind = "text"
                  /\ resp[1].body.text = (IF req.qop \in SupportedQops
                                          THEN sInvalidAlgorithm ELSE sInvalidQop)
                  /\ resp[1].wwwAuth = Null

\* C2 witness: a header that would authenticate, on a route with algorithm ROT13
C2_Witness ==
    /\ DigestDone
    /\ req.qop \in SupportedQops /\ req.algorithm \notin SupportedAlgorithms
    /\ req.route = "digest5"
    /\ cli.kind = "digest" /\ cli.dev.mode = "none"
    /\ resp[1].status = 400

\* C3: a request to a Digest route produces exactly one response, with status
\* 200, 400 or 401; a 401 has no body and a WWW-Authenticate that begins with
\* Digest realm="Fake Realm", nonce="<nonce>"; a 200 has the body
\* {authenticated: true, user} and no WWW-Authenticate.
C3_OneTerminalOutcome ==
    req.route \in DigestRoutes
    => /\ Len(resp) = (IF Done THEN 1 ELSE 0)
       /\ Done =>
            /\ resp[1].status \in {200, 400, 401}
            /\ resp[1].status = 401 =>
                 /\ resp[1].body.kind = "null"
                 /\ StartsWith(resp[1].wwwAuth, ChallengePrefix)
                 /\ FindChar(resp[1].wwwAuth, Len(ChallengePrefix) + 1, "\"")
                       > Len(ChallengePrefix) + 1
            /\ resp[1].status = 200 =>
                 /\ resp[1].body.kind = "json" /\ resp[1].body.authenticated
                 /\ resp[1].body.user = req.user
                 /\ resp[1].wwwAuth = Null

\* C3 witness: a 401 after the three hashes (the response did not match)
C3_Witness ==
    /\ DigestDone
    /\ resp[1].status = 401
    /\ HashCalls = 3

\* C4 (as stated): Basic credentials that are the base64 encoding of
\* user:passwd of the route are answered 200 with {authenticated: true, user}.
C4_BasicSucceeds ==
    (Done /\ req.route = "basic" /\ cli.kind = "basic" /\ cli.pos = 0
        /\ cli.text = Join(<<req.user, req.passwd>>, <<":">>))
    => /\ resp[1].status = 200
       /\ resp[1].body.kind = "json" /\ resp[1].body.authenticated
       /\ resp[1].body.user = req.user

\* C5 (as stated): the correct encoded credentials with one character
\* replaced by another are answered 401 with WWW-Authenticate
\* Basic realm="Fake Realm".
C5_BasicMutationRejected ==
    (Done /\ req.route = "basic" /\ cli.kind = "basic" /\ cli.pos > 0
        /\ cli.text = Join(<<req.user, req.passwd>>, <<":">>))
    => /\ resp[1].status = 401
       /\ resp[1].wwwAuth = sBasicChallenge

\* C6: on /bearer a header value "Bearer " followed by a non-empty token is
\* answered 200 with {authenticated: true, token} and the token is the rest of
\* the value; every other request is answered 401 with WWW-Authenticate
\* "Bearer"; no 200 carries an empty token.
C6_BearerDecision ==
    (Done /\ req.route = "bearer")
    => LET v == req.header.value
           hasToken == /\ req.header.present
                       /\ Len(v) > 7
                       /\ SubSeq(v, 1, 7) = <<"B", "e", "a", "r", "e", "r", " ">>
       IN  /\ Len(resp) = 1
           /\ hasToken => /\ resp[1].status = 200
                          /\ resp[1].body.kind = "json" /\ resp[1].body.authenticated
                          /\ resp[1].body.token = SubSeq(v, 8, Len(v))
           /\ ~hasToken => /\ resp[1].status = 401
                           /\ resp[1].wwwAuth = <<"B", "e", "a", "r", "e", "r">>
           /\ resp[1].status = 200 => resp[1].body.token # <<>>

\* C6 witness: the client sent "Bearer " with an empty token
C6_Witness ==
    /\ Done /\ req.route = "bearer"
    /\ cli.kind = "raw" /\ cli.raw = <<"B", "e", "a", "r", "e", "r", " ">>
    /\ resp[1].status = 401

ChangedOf(keys) ==
    /\ DigestDone
    /\ cli.kind = "digest"
    /\ cli.changed \in keys

\* C7 (as stated): a header that was answered 200, sent again with exactly one
\* of nc, cnonce, nonce changed to another value and the same response, is
\* answered 401.
C7_AnyHeader ==
    (ChangedOf({"nc", "cnonce", "nonce"})
        /\ Truthy(base[cli.changed]) /\ Truthy(cli.fields[cli.changed]))
    => resp[1].status = 401

\* C7 (amended): a header that was answered 200, sent again with the same
\* response and with its nonce changed or removed, or, when it carried both a
\* non-empty nc and a non-empty cnonce, with its nc or its cnonce changed or
\* removed, is answered 401.
C7_ChangedNonceOrCounters ==
    (ChangedOf({"nc", "cnonce", "nonce"})
        /\ (cli.changed = "nonce" \/ (Truthy(base.nc) /\ Truthy(base.cnonce))))
    => resp[1].status = 401

\* C7 witness: the cnonce of a header with nc and cnonce was changed, and the
\* recomputed response did not match
C7_Witness ==
    /\ ChangedOf({"cnonce"})
    /\ Truthy(base.nc) /\ Truthy(base.cnonce) /\ Truthy(cli.fields.cnonce)
    /\ HashCalls = 3
    /\ resp[1].status = 401

\* C8 (as stated): a header that was answered 200, sent again to the same URL
\* with only its uri parameter changed to another value, is answered 401.
C8_ChangedUriRejected ==
    (ChangedOf({"uri"}) /\ Truthy(base.uri) /\ Truthy(cli.fields.uri))
    => resp[1].status = 401

\* C9 (as stated): a header that was answered 200, sent again on the same
\* route with only its algorithm parameter changed to another supported
\* algorithm, is answered 401.
C9_ChangedAlgorithmRejected ==
    (ChangedOf({"algorithm"}) /\ base.algorithm \in SupportedAlgorithms
        /\ cli.fields.algorithm \in SupportedAlgorithms)
    => resp[1].status = 401

StaleOf(wwwAuth) == Get(parseWWWAuthenticate(wwwAuth), kStale)

\* C10: on the 5-segment route every 401 carries stale=true when stale_after
\* is "0" and none does when stale_after is "never", whichever check failed.
C10_StaleFollowsRoute ==
    (DigestDone /\ req.route = "digest5" /\ resp[1].status = 401)
    => /\ req.staleAfter = <<"0">> => StaleOf(resp[1].wwwAuth) = sTrue
       /\ req.staleAfter = sNever => StaleOf(resp[1].wwwAuth) = Undefined

\* C10 witness: stale_after = "0" and the response did not match
C10_Witness ==
    /\ DigestDone /\ req.route = "digest5" /\ req.staleAfter = <<"0">>
    /\ resp[1].status = 401
    /\ HashCalls = 3
    /\ StaleOf(resp[1].wwwAuth) = sTrue

-----------------------------------------------------------------------------
(* generateDigestChallenge on its own: every combination of its arguments,  *)
(* and the arguments the three Digest routes pass to it                     *)

ChallengeRealms ==
    {sFakeRealm, <<>>, <<"a", ",", "b">>, <<"k", "=", "v">>, <<"a", "\"", "b">>}

ChallengeQops == {Null, sAuth, sAuthInt}

ChallengeAlgorithms == {Null, sMD5, sSHA256, sSHA512}

\* the calls generateDigestChallenge(realm, qop, algorithm, stale): any
\* arguments ("call"), or those of a Digest route that passed its validation
ChallengeCalls ==
    {[pc |-> "args", from |-> "call", realm |-> realm, qop |-> qop, algorithm |-> algorithm,
      stale |-> stale, nonce |-> Undefined, header |-> Undefined, params |-> <<>>]
        : realm \in ChallengeRealms, qop \in ChallengeQops,
          algorithm \in ChallengeAlgorithms, stale \in BOOLEAN}
    \cup {[pc |-> "args", from |-> r.route, realm |-> sFakeRealm, qop |-> r.qop,
           algorithm |-> ChallengeAlgorithm(r), stale |-> ChallengeStale(r),
           nonce |-> Undefined, header |-> Undefined, params |-> <<>>]
            : r \in {q \in Requests : /\ q.route \in DigestRoutes
                                      /\ ValidQop(q.qop)
                                      /\ q.route # "digest3" => ValidAlgorithm(q.algorithm)}}

\* generateDigestChallenge(realm, qop, algorithm, stale)
BuildChallenge ==
    /\ chal.pc = "args"
    /\ \E randomBytes \in RandomBytes :
          chal' = [chal EXCEPT
                     !.pc = "built",
                     !.nonce = generateNonce(randomBytes),
                     !.header = generateDigestChallenge(chal.realm, chal.qop, chal.algorithm,
                                                        chal.stale, randomBytes)]
    /\ UNCHANGED <<pc, req, work, ops, resp, cli, base, other, seen, redir, stat, cond, docs>>

\* parseWWWAuthenticate(wwwAuth)
ParseChallenge ==
    /\ chal.pc = "built"
    /\ chal' = [chal EXCEPT !.pc = "parsed", !.params = parseWWWAuthenticate(chal.header)]
    /\ UNCHANGED <<pc, req, work, ops, resp, cli, base, other, seen, redir, stat, cond, docs>>

InitChallenge ==
    /\ AuthIdle
    /\ other = NoOther
    /\ seen = NoSeen
    /\ chal \in ChallengeCalls
    /\ redir = NoRedir
    /\ stat = NoStat
    /\ cond = NoCond
    /\ docs = NoDocs

NextChallenge ==
    \/ BuildChallenge
    \/ ParseChallenge

SpecChallenge == InitChallenge /\ [][NextChallenge]_vars

\* what parsing recovers of the arguments of the call
Recovered ==
    /\ Get(chal.params, kRealm) = chal.realm
    /\ Get(chal.params, kQop) = (IF chal.qop = Null THEN Undefined ELSE chal.qop)
    /\ Get(chal.params, kAlgorithm)
         = (IF chal.algorithm = Null THEN Undefined ELSE chal.algorithm)
    /\ Get(chal.params, kStale) = (IF chal.stale THEN sTrue ELSE Undefined)

HasQuote(s) == \E i \in 1..Len(s) : s[i] = "\""

-----------------------------------------------------------------------------
(* Claims on the authentication routes, continued *)

\* the Authorization header is absent, empty, of another scheme, or malformed
\* for the scheme of the route
MalformedOrAbsent ==
    LET v == req.header.value
    IN  \/ ~req.header.present
        \/ v = <<>>
        \/ /\ req.route = "basic"
           /\ \/ ~StartsWith(v, <<"B", "a", "s", "i", "c", " ">>)
              \/ Atob(SubSeq(v, 7, Len(v))) = AtobThrows
              \/ \A i \in 1..Len(Atob(SubSeq(v, 7, Len(v)))) :
                    Atob(SubSeq(v, 7, Len(v)))[i] # ":"
        \/ /\ req.route = "bearer"
           /\ ~StartsWith(v, <<"B", "e", "a", "r", "e", "r", " ">>)
        \/ /\ req.route \in DigestRoutes
           /\ \/ ~StartsWith(v, <<"D", "i", "g", "e", "s", "t", " ">>)
              \/ DOMAIN parseWWWAuthenticate(SubSeq(v, 8, Len(v))) = {}

\* C12 (as stated): a request whose Authorization header is absent, empty, of
\* another scheme or malformed for the scheme of the route is answered 401
\* with the challenge of that scheme, never 400 or 5xx (on a Digest route
\* whose qop and algorithm are supported).
C12_MalformedIsAuthFailure ==
    (Done /\ MalformedOrAbsent /\ (req.route \in DigestRoutes => RouteIsValid))
    => /\ resp[1].status = 401
       /\ req.route = "basic" => resp[1].wwwAuth = sBasicChallenge
       /\ req.route = "bearer" => resp[1].wwwAuth = sBearerChallenge
       /\ req.route \in DigestRoutes => StartsWith(resp[1].wwwAuth, ChallengePrefix)

-----------------------------------------------------------------------------
(* Two requests in flight: the handlers are asynchronous, and a second      *)
(* request runs while the first is suspended at an await                    *)

\* the header of a client that deviates from the honest one by d
HeaderOf(r, d) ==
    HeaderValue(makeDigestAuthHeader(
        DeviatedFields(Honest(r, sFakeRealm, OwnNonce), d, "helper")))

\* the headers of a Digest request, by what is wrong with them
ReasonHeaders(r) ==
    [missing |-> NoHeader,
     unparseable |-> HeaderValue(sBasic \o Btoa(<<"u", ":", "p">>)),
     incomplete |-> HeaderOf(r, [mode |-> "hdr", key |-> "realm", value |-> Null]),
     username |-> HeaderOf(r, [mode |-> "hdr", key |-> "username", value |-> <<"v">>]),
     response |-> HeaderOf(r, [mode |-> "cmp", key |-> "password", value |-> <<"x">>]),
     valid |-> HeaderOf(r, [mode |-> "none", key |-> "none", value |-> Null])]

FailureReasons == {"missing", "unparseable", "incomplete", "username", "response"}

ConcurrentRoutes ==
    {[NoReq EXCEPT !.route = "digest4", !.qop = sAuth, !.user = <<"u">>, !.passwd = <<"p">>,
                   !.algorithm = sSHA256, !.method = sGET],
     [NoReq EXCEPT !.route = "digest5", !.qop = sAuth, !.user = <<"u">>, !.passwd = <<"p">>,
                   !.algorithm = sMD5, !.staleAfter = <<"0">>, !.method = sGET]}

ConcurrentRequests ==
    {[r EXCEPT !.header = ReasonHeaders(r)[k]]
        : r \in ConcurrentRoutes, k \in FailureReasons \cup {"valid"}}
    \cup {[NoReq EXCEPT !.route = "basic", !.user = <<"u">>, !.passwd = <<"p">>,
                        !.method = sGET, !.header = HeaderValue(sBasic \o Btoa(t))]
            : t \in {<<"u", ":", "p">>, <<"u", ":", "x">>}}
    \cup {[NoReq EXCEPT !.route = "bearer", !.method = sGET,
                        !.header = HeaderValue(sBearer \o <<"t">>)]}

\* a request arrives
Arrive ==
    /\ pc = "idle"
    /\ \E r \in ConcurrentRequests : req' = r
    /\ pc' = "recv"
    /\ work' = NoWork
    /\ ops' = <<>>
    /\ resp' = <<>>
    /\ UNCHANGED <<cli, base, extra>>

\* the request in flight is suspended (or is finished) and the other one runs
Switch ==
    /\ other' = [pc |-> pc, req |-> req, work |-> work, ops |-> ops, resp |-> resp]
    /\ pc' = other.pc
    /\ req' = other.req
    /\ work' = other.work
    /\ ops' = other.ops
    /\ resp' = other.resp
    /\ UNCHANGED <<cli, base, seen, chal, redir, stat, cond, docs>>

\* the response is delivered; the request and its response may be remembered
Depart ==
    /\ pc = "done"
    /\ pc' = "idle"
    /\ req' = NoReq
    /\ work' = NoWork
    /\ ops' = <<>>
    /\ resp' = <<>>
    /\ seen' \in {seen, [req |-> req, status |-> resp[1].status, body |-> resp[1].body]}
    /\ UNCHANGED <<cli, base, other, chal, redir, stat, cond, docs>>

NextConcurrent ==
    \/ Arrive
    \/ Switch
    \/ Depart
    \/ BasicAuth
    \/ Bearer
    \/ DigestStart
    \/ DigestHA1
    \/ DigestHA2
    \/ DigestKD
    \/ DigestVerdict

SpecConcurrent == Init /\ [][NextConcurrent]_vars

\* the first index at which p occurs in s, or 0
IndexOf(s, p) ==
    LET at == {i \in 1..(Len(s) - Len(p) + 1) : SubSeq(s, i, i + Len(p) - 1) = p}
    IN  IF at = {} THEN 0 ELSE CHOOSE i \in at : \A j \in at : i <= j

\* a challenge without the value of its nonce
MaskNonce(wwwAuth) ==
    LET opening == <<"n", "o", "n", "c", "e", "=", "\"">>
        i == IndexOf(wwwAuth, opening)
        q == FindChar(wwwAuth, i + Len(opening), "\"")
    IN  IF i = 0 \/ q = 0 THEN wwwAuth
        ELSE SubSeq(wwwAuth, 1, i + Len(opening) - 1) \o SubSeq(wwwAuth, q, Len(wwwAuth))

\* the headers of the requests to the routes of ConcurrentRoutes
HeadersByReason == [r \in ConcurrentRoutes |-> ReasonHeaders(r)]

\* the reasons for which the header of request r fails on its route
ReasonsOf(r) ==
    LET route == [r EXCEPT !.header = NoHeader]
    IN  IF route \in ConcurrentRoutes
        THEN {k \in FailureReasons : r.header = HeadersByReason[route][k]}
        ELSE {}

\* C13: on a Digest route, the responses to a missing header, an unparseable
\* header, incomplete credentials, another username and a wrong response are
\* all 401, with the same (empty) body and the same WWW-Authenticate but for
\* the value of the nonce.
C13_FailuresLookAlike ==
    /\ (Done /\ ReasonsOf(req) # {})
       => /\ resp[1].status = 401
          /\ resp[1].body = NoBody
    /\ (Done /\ other.pc = "done" /\ ReasonsOf(req) # {} /\ ReasonsOf(other.req) # {}
          /\ [req EXCEPT !.header = NoHeader] = [other.req EXCEPT !.header = NoHeader])
       => /\ resp[1].status = other.resp[1].status
          /\ resp[1].body = other.resp[1].body
          /\ MaskNonce(resp[1].wwwAuth) = MaskNonce(other.resp[1].wwwAuth)

\* C13 witness: the responses to a missing header and to a wrong response, on
\* the same route, with different nonces
C13_Witness ==
    /\ Done /\ other.pc = "done"
    /\ req.route = "digest4" /\ other.req.route = "digest4"
    /\ ReasonsOf(req) = {"missing"} /\ ReasonsOf(other.req) = {"response"}
    /\ Len(SelectSeq(other.ops, LAMBDA o : o = "hash")) = 3
    /\ resp[1].wwwAuth # other.resp[1].wwwAuth

\* C14: status and body of a response are determined by the request's method,
\* URL and Authorization header: two requests in flight together with the
\* same values get the same status and body, a request gets the status and
\* body an identical earlier request got, and a valid Digest header with a
\* nonce of the client's own is answered 200.
C14_Stateless ==
    /\ (Done /\ other.pc = "done" /\ req = other.req)
       => /\ resp[1].status = other.resp[1].status
          /\ resp[1].body = other.resp[1].body
    /\ (Done /\ seen.req = req)
       => /\ resp[1].status = seen.status
          /\ resp[1].body = seen.body
    /\ (Done /\ [req EXCEPT !.header = NoHeader] \in ConcurrentRoutes
          /\ req.header = HeadersByReason[[req EXCEPT !.header = NoHeader]].valid)
       => resp[1].status = 200

\* C14 witness: a valid Digest header is accepted again (it was accepted
\* before) while another request, with other credentials, is suspended
\* between its hashes
C14_Witness ==
    /\ Done /\ req.route = "digest4"
    /\ seen.req = req /\ seen.status = 200
    /\ resp[1].status = 200
    /\ other.pc = "kd" /\ other.req.route = "digest4" /\ other.req # req

\* the entity body of the requests of the model: they are GET requests without one
entityBody == <<>>

\* C15 (as stated): the server's HA2 is hash(method:uri) when the route's qop
\* is auth, and hash(method:uri:hash(entityBody)) when it is auth-int.
C15_HA2FollowsQop ==
    (req.route \in DigestRoutes /\ work.HA2 # Undefined)
    => work.HA2
         = (IF req.qop = sAuthInt
            THEN ClientHash(RouteAlgorithm(req),
                            Join(<<req.method, RequestUri(req),
                                   ClientHash(RouteAlgorithm(req), entityBody)>>, <<":">>))
            ELSE ClientHash(RouteAlgorithm(req),
                            Join(<<req.method, RequestUri(req)>>, <<":">>)))

\* C16: on /digest-auth/auth-int/:user/:passwd the client that answers the
\* challenge as the test helper does (HA2 = hash(method:uri), no entity-body
\* hash) is answered 200 with {authenticated: true, user}.
C16_AuthIntAsTested ==
    (DigestDone /\ req.route = "digest3" /\ req.qop = sAuthInt
        /\ cli.kind = "digest" /\ cli.flow = "challenged" /\ cli.variant = "helper"
        /\ cli.changed = "none")
    => /\ resp[1].status = 200
       /\ resp[1].body.kind = "json" /\ resp[1].body.authenticated
       /\ resp[1].body.user = req.user

\* C16 witness: the answer to the challenge was checked with three hashes and
\* accepted
C16_Witness ==
    /\ DigestDone /\ req.route = "digest3" /\ req.qop = sAuthInt
    /\ cli.kind = "digest" /\ cli.flow = "challenged" /\ cli.variant = "helper"
    /\ cli.changed = "none"
    /\ cli.fields.qop = sAuthInt
    /\ HashCalls = 3
    /\ resp[1].status = 200

\* C17 (as stated): HA1 is hash(route user:Fake Realm:route password), and a
\* header whose realm is not "Fake Realm", with a response computed with that
\* realm, is answered 401.
C17_ServerRealm ==
    /\ (req.route \in DigestRoutes /\ work.HA1 # Undefined)
       => work.HA1 = ClientHash(RouteAlgorithm(req),
                                Join(<<req.user, <<"F", "a", "k", "e", " ", "R", "e", "a", "l", "m">>,
                                       req.passwd>>, <<":">>))
    /\ (DigestDone /\ RouteIsValid /\ cli.kind = "digest" /\ cli.changed = "none"
          /\ cli.dev.mode = "both" /\ cli.dev.key = "realm")
       => resp[1].status = 401

-----------------------------------------------------------------------------
(* The redirect routes (src/src/routes/redirects.ts) and a client that       *)
(* follows the Location header                                               *)

\* `${n}` for an integer n
RECURSIVE DigitsOf(_)
DigitsOf(n) == IF n < 10 THEN <<Chr(48 + n)>> ELSE DigitsOf(n \div 10) \o <<Chr(48 + (n % 10))>>

IntToString(n) == IF n < 0 THEN <<"-">> \o DigitsOf(0 - n) ELSE DigitsOf(n)

\* String.prototype.toLowerCase
ToLowerCase(s) ==
    [i \in 1..Len(s) |-> IF Code(s[i]) \in 65..90 THEN Chr(Code(s[i]) + 32) ELSE s[i]]

\* url.pathname and url.search (without its "?") of a path-and-query
PathOf(url) ==
    LET k == FindChar(url, 1, "?") IN IF k = 0 THEN url ELSE SubSeq(url, 1, k - 1)

SearchOf(url) ==
    LET k == FindChar(url, 1, "?") IN IF k = 0 THEN <<>> ELSE SubSeq(url, k + 1, Len(url))

\* c.req.query(key): the value of the first key=value pair of the query
Query(url, key) ==
    LET pairs == Split(SearchOf(url), "&")
        named == SelectSeq(pairs, LAMBDA pr : pr = key \/ StartsWith(pr, key \o <<"=">>))
    IN  IF Len(named) = 0 THEN Undefined
        ELSE SubSeq(named[1], Len(key) + 2, Len(named[1]))

\* c.req.param("n") on the route prefix/:n, undefined when the path is not of the route
RouteParam(path, prefix) ==
    LET rest == SubSeq(path, Len(prefix) + 1, Len(path))
    IN  IF StartsWith(path, prefix) /\ Len(rest) > 0 /\ FindChar(rest, 1, "/") = 0
        THEN rest ELSE Undefined

sRedirect == <<"/", "r", "e", "d", "i", "r", "e", "c", "t", "/">>
sRelativeRedirect == <<"/", "r", "e", "l", "a", "t", "i", "v", "e", "-", "r", "e", "d", "i", "r", "e", "c", "t", "/">>
sAbsoluteRedirect == <<"/", "a", "b", "s", "o", "l", "u", "t", "e", "-", "r", "e", "d", "i", "r", "e", "c", "t", "/">>
sGetPath == <<"/", "g", "e", "t">>
sOrigin == <<"h", "t", "t", "p", ":", "/", "/", "l", "o", "c", "a", "l", "h", "o", "s", "t">>
kAbsolute == <<"a", "b", "s", "o", "l", "u", "t", "e">>

\* buildAbsoluteUrl(c, path)
buildAbsoluteUrl(path) == sOrigin \o path

\* the longest chain the client starts
MaxRedirects == 4

\* 10^21 in decimal: the least integer that a number prints in exponent form
sTenTo21 == <<"1">> \o [i \in 1..21 |-> "0"]

\* parseInt(s, 10) as a number: an integer that TLC can hold, or 10^21, which a
\* double holds exactly (10^21 = 2^21 * 5^21 and 5^21 < 2^53)
ParseCount(s) ==
    IF s = sTenTo21 THEN [nan |-> FALSE, value |-> 0, e21 |-> TRUE]
    ELSE [nan |-> ParseInt(s).nan, value |-> ParseInt(s).value, e21 |-> FALSE]

\* `${n - 1}`: 10^21 - 1 is no double and rounds to 10^21 (doubles are 2^17
\* apart there), which prints as 1e+21
MinusOne(n) == IF n.e21 THEN <<"1", "e", "+", "2", "1">> ELSE IntToString(n.value - 1)

\* Number.isNaN(n) || n < 1
IsInvalidCount(n) == n.nan \/ (~n.e21 /\ n.value < 1)

\* n === 1
IsOne(n) == ~n.nan /\ ~n.e21 /\ n.value = 1

RedirectCounts ==
    {IntToString(n) : n \in 1..MaxRedirects}
    \cup {<<"0">>, <<"-", "1">>, <<"a", "b", "c">>, <<"2", "x">>, sTenTo21}

AbsoluteValues == {Undefined, sTrue, <<"T", "R", "U", "E">>, <<"f", "a", "l", "s", "e">>}

\* the URLs a chain starts from
RedirectStarts ==
    {[route |-> "redirect", n |-> n, absolute |-> a,
      url |-> sRedirect \o n
              \o (IF a = Undefined THEN <<>> ELSE <<"?">> \o kAbsolute \o <<"=">> \o a)]
        : n \in RedirectCounts, a \in AbsoluteValues}
    \cup {[route |-> "relative", n |-> n, absolute |-> Undefined, url |-> sRelativeRedirect \o n]
            : n \in RedirectCounts}
    \cup {[route |-> "absolute", n |-> n, absolute |-> Undefined, url |-> sAbsoluteRedirect \o n]
            : n \in RedirectCounts}

IdleRedir ==
    [pc |-> "idle", start |-> <<>>, url |-> <<>>, hops |-> 0, status |-> 0,
     location |-> Undefined]

\* the client requests the first URL of a chain
StartChain ==
    /\ redir.pc = "idle"
    /\ \E st \in RedirectStarts :
          redir' = [IdleRedir EXCEPT !.pc = "request", !.start = st, !.url = st.url]
    /\ UNCHANGED <<pc, req, work, ops, resp, cli, base, other, seen, chal, stat, cond, docs>>

\* c.json({error: "Invalid redirect count"}, 400)
InvalidCount == [redir EXCEPT !.pc = "response", !.status = 400, !.location = Undefined]

\* c.redirect(location, 302)
Redirected(n, location) ==
    [redir EXCEPT !.pc = "response", !.status = 302, !.location = location,
                  !.hops = redir.hops + 1]

\* GET /redirect/:n
RedirectN ==
    /\ redir.pc = "request"
    /\ RouteParam(PathOf(redir.url), sRedirect) # Undefined
    /\ LET n == ParseCount(RouteParam(PathOf(redir.url), sRedirect))
           absolute == /\ Query(redir.url, kAbsolute) # Undefined
                       /\ ToLowerCase(Query(redir.url, kAbsolute)) = sTrue
       IN  redir' =
             IF IsInvalidCount(n) THEN InvalidCount
             ELSE IF IsOne(n)
             THEN (IF absolute THEN Redirected(n, buildAbsoluteUrl(sGetPath))
                   ELSE Redirected(n, sGetPath))
             ELSE IF absolute
             THEN Redirected(n,
                             buildAbsoluteUrl(sAbsoluteRedirect \o MinusOne(n)))
             ELSE Redirected(n, sRelativeRedirect \o MinusOne(n))
    /\ UNCHANGED <<pc, req, work, ops, resp, cli, base, other, seen, chal, stat, cond, docs>>

\* GET /relative-redirect/:n
RelativeRedirectN ==
    /\ redir.pc = "request"
    /\ RouteParam(PathOf(redir.url), sRelativeRedirect) # Undefined
    /\ LET n == ParseCount(RouteParam(PathOf(redir.url), sRelativeRedirect))
       IN  redir' =
             IF IsInvalidCount(n) THEN InvalidCount
             ELSE IF IsOne(n) THEN Redirected(n, sGetPath)
             ELSE Redirected(n, sRelativeRedirect \o MinusOne(n))
    /\ UNCHANGED <<pc, req, work, ops, resp, cli, base, other, seen, chal, stat, cond, docs>>

\* GET /absolute-redirect/:n
AbsoluteRedirectN ==
    /\ redir.pc = "request"
    /\ RouteParam(PathOf(redir.url), sAbsoluteRedirect) # Undefined
    /\ LET n == ParseCount(RouteParam(PathOf(redir.url), sAbsoluteRedirect))
       IN  redir' =
             IF IsInvalidCount(n) THEN InvalidCount
             ELSE IF IsOne(n) THEN Redirected(n, buildAbsoluteUrl(sGetPath))
             ELSE Redirected(n,
                             buildAbsoluteUrl(sAbsoluteRedirect \o MinusOne(n)))
    /\ UNCHANGED <<pc, req, work, ops, resp, cli, base, other, seen, chal, stat, cond, docs>>

\* GET /get: the end of a chain, not a redirect
GetTarget ==
    /\ redir.pc = "request"
    /\ PathOf(redir.url) = sGetPath
    /\ redir' = [redir EXCEPT !.pc = "response", !.status = 200, !.location = Undefined]
    /\ UNCHANGED <<pc, req, work, ops, resp, cli, base, other, seen, chal, stat, cond, docs>>

\* the path-and-query of a Location on the origin of the request
Resolve(location) ==
    IF StartsWith(location, sOrigin) THEN SubSeq(location, Len(sOrigin) + 1, Len(location))
    ELSE location

\* the client follows the Location of a 302
Follow ==
    /\ redir.pc = "response"
    /\ redir.status = 302
    /\ redir' = [redir EXCEPT !.pc = "request", !.url = Resolve(redir.location)]
    /\ UNCHANGED <<pc, req, work, ops, resp, cli, base, other, seen, chal, stat, cond, docs>>

\* the client is done with a response that is no redirect
EndChain ==
    /\ redir.pc = "response"
    /\ redir.status # 302
    /\ redir' = IdleRedir
    /\ UNCHANGED <<pc, req, work, ops, resp, cli, base, other, seen, chal, stat, cond, docs>>

InitRedirect ==
    /\ AuthIdle
    /\ other = NoOther
    /\ seen = NoSeen
    /\ chal = NoChal
    /\ redir = IdleRedir
    /\ stat = NoStat
    /\ cond = NoCond
    /\ docs = NoDocs

NextRedirect ==
    \/ StartChain
    \/ RedirectN
    \/ RelativeRedirectN
    \/ AbsoluteRedirectN
    \/ GetTarget
    \/ Follow
    \/ EndChain

SpecRedirect == InitRedirect /\ [][NextRedirect]_vars

\* the chain in progress was started with an integer n >= 1, written in decimal
ChainOfN ==
    /\ redir.pc \in {"request", "response"}
    /\ \/ \E n \in 1..(MaxRedirects + 1) : redir.start.n = IntToString(n)
       \/ redir.start.n = <<"1">> \o [i \in 1..21 |-> "0"]

StartIsHuge == Len(redir.start.n) = 22

StartCount == CHOOSE n \in 1..(MaxRedirects + 1) : redir.start.n = IntToString(n)

\* the client has received as many redirects as the chain was started with
HopsAreStartCount == ~StartIsHuge /\ redir.hops = StartCount

\* the decimal counter n - hops
Remaining ==
    IF StartIsHuge THEN (IF redir.hops = 1 THEN [i \in 1..21 |-> "9"] ELSE <<>>)
    ELSE IF StartCount - redir.hops >= 1 THEN IntToString(StartCount - redir.hops)
    ELSE <<>>

StartsAbsolute ==
    \/ redir.start.route = "absolute"
    \/ redir.start.route = "redirect" /\ redir.start.absolute = <<"t", "r", "u", "e">>

IsAbsoluteUrl(location) == StartsWith(location, <<"h", "t", "t", "p", ":", "/", "/">>)

\* C18 (as stated): a chain started at /redirect/n, /relative-redirect/n or
\* /absolute-redirect/n with an integer n >= 1 has exactly n responses 302; the
\* Location of hop h < n ends in the counter n - h >= 1, the Location of hop n
\* is /get, and the response after it is no redirect; a chain started with
\* absolute=true or on /absolute-redirect has an absolute URL in every Location.
C18_RedirectChain ==
    (ChainOfN /\ redir.pc = "response")
    => IF redir.location = Undefined
       THEN redir.status = 200 /\ HopsAreStartCount
       ELSE /\ redir.status = 302
            /\ IF Resolve(redir.location) = <<"/", "g", "e", "t">>
               THEN HopsAreStartCount
               ELSE /\ Remaining # <<>>
                    /\ Resolve(redir.location) \in {<<"/", "r", "e", "l", "a", "t", "i", "v", "e", "-", "r", "e", "d", "i", "r", "e", "c", "t", "/">> \o Remaining,
                                                    <<"/", "a", "b", "s", "o", "l", "u", "t", "e", "-", "r", "e", "d", "i", "r", "e", "c", "t", "/">> \o Remaining}
            /\ StartsAbsolute => IsAbsoluteUrl(redir.location)

-----------------------------------------------------------------------------
(* GET /status/:codes: one request, the handler, the response *)

sInvalidStatusCode == <<"I", "n", "v", "a", "l", "i", "d", " ", "s", "t", "a", "t", "u", "s", " ", "c", "o", "d", "e">>
sInternalServerError == <<"I", "n", "t", "e", "r", "n", "a", "l", " ", "S", "e", "r", "v", "e", "r", " ", "E", "r", "r", "o", "r">>
sRedirectLocation == <<"/", "r", "e", "d", "i", "r", "e", "c", "t", "/", "1">>

\* String.prototype.includes for a single character
Includes(s, ch) == FindChar(s, 1, ch) # 0

\* String.prototype.trim
Trim(s) == TrimRight(TrimLeft(s))

\* the digits of s from position k on
RECURSIVE DigitRun(_, _)
DigitRun(s, k) ==
    IF k <= Len(s) /\ IsDigit(s[k]) THEN <<s[k]>> \o DigitRun(s, k + 1) ELSE <<>>

\* parseFloat(s) for a decimal literal with at most one digit after the point,
\* in tenths: leading whitespace, a sign, digits, a point, a digit; NaN when
\* neither a digit nor a point and a digit comes first
ParseFloat(s) ==
    LET t == TrimLeft(s)
        neg == Len(t) > 0 /\ t[1] = "-"
        u == IF Len(t) > 0 /\ t[1] \in {"-", "+"} THEN Tail(t) ELSE t
        whole == DigitRun(u, 1)
        rest == SubSeq(u, Len(whole) + 1, Len(u))
        frac == IF Len(rest) > 1 /\ rest[1] = "." /\ IsDigit(rest[2])
                THEN Code(rest[2]) - 48 ELSE 0
        some == Len(whole) > 0 \/ (Len(rest) > 1 /\ rest[1] = "." /\ IsDigit(rest[2]))
        mag == (DigitsValue(whole, 1, 0) * 10) + frac
    IN  IF some THEN [nan |-> FALSE, tenths |-> IF neg THEN 0 - mag ELSE mag]
        ELSE [nan |-> TRUE, tenths |-> 0]

\* let weight = 1
WeightOne == [nan |-> FALSE, tenths |-> 10]

\* the number of values Math.random() takes: k / RandomSteps for k in 0..RandomSteps - 1
RandomSteps == 4

\* total += w over the first j weights, in tenths; NaN once a weight is NaN
RECURSIVE CumWeight(_, _)
CumWeight(choices, j) ==
    IF j = 0 THEN [nan |-> FALSE, tenths |-> 0]
    ELSE LET before == CumWeight(choices, j - 1)
             w == choices[j].weight
         IN  [nan |-> before.nan \/ w.nan, tenths |-> before.tenths + w.tenths]

\* weightedChoice(choices) when Math.random() returns random / RandomSteps:
\* the value at the first j with x <= cumWeights[j], the first value when there
\* is none; a comparison with NaN is false
weightedChoice(choices, random) ==
    LET total == CumWeight(choices, Len(choices))
        Reached(j) ==
            /\ ~total.nan
            /\ ~CumWeight(choices, j).nan
            /\ random * total.tenths <= CumWeight(choices, j).tenths * RandomSteps
        hits == {j \in 1..Len(choices) : Reached(j)}
        i == IF hits = {} THEN 1 ELSE CHOOSE j \in hits : \A k \in hits : j <= k
    IN  choices[i].value

\* codeMap[code]: the data and the name of the header of the special codes
NoData == <<"undefined">>
NoHeaders == <<>>

codeMap(code) ==
    CASE code \in {301, 302, 303, 305, 307} ->
            [data |-> NoData, headers |-> <<<<"Location">>, sRedirectLocation>>]
      [] code = 304 -> [data |-> <<>>, headers |-> NoHeaders]
      [] code = 401 ->
            [data |-> NoData, headers |-> <<<<"WWW-Authenticate">>, sBasicChallenge>>]
      [] code = 402 ->
            [data |-> <<"F", "u", "c", "k", " ", "y", "o", "u", ",", " ", "p", "a", "y", " ", "m", "e", "!">>, headers |-> <<<<"x-more-info">>, <<"<vimeo>">>>>]
      [] code = 406 ->
            [data |-> <<"<json>">>, headers |-> <<<<"Content-Type">>, <<"application/json">>>>]
      [] code = 407 ->
            [data |-> NoData, headers |-> <<<<"Proxy-Authenticate">>, sBasicChallenge>>]
      [] code = 418 ->
            [data |-> <<"<teapot>">>, headers |-> <<<<"x-more-info">>, <<"<rfc2324>">>>>]
      [] OTHER -> [data |-> NoData, headers |-> NoHeaders]

\* createStatusCodeResponse(code)
createStatusCodeResponse(code) ==
    [error |-> FALSE, status |-> code, body |-> codeMap(code).data,
     headers |-> codeMap(code).headers]

StatusError ==
    [error |-> TRUE, status |-> 400, body |-> sInvalidStatusCode, headers |-> NoHeaders]

\* Number.isNaN(code) || code.toString() !== text
NotWholeNumber(code, text) == code.nan \/ IntToString(code.value) # text

\* one turn of the loop over codes.split(","): the choice [code, weight] of an item
ChoiceOf(choice) ==
    LET parts == Split(choice, ":")
        codeStr == IF Includes(choice, ":") THEN parts[1] ELSE choice
        weight == IF Includes(choice, ":") THEN ParseFloat(parts[2]) ELSE WeightOne
        trimmedCodeStr == Trim(codeStr)
        code == ParseInt(trimmedCodeStr)
    IN  [invalid |-> NotWholeNumber(code, trimmedCodeStr), value |-> code.value,
         weight |-> weight]

\* handleStatusCodes(codes) when Math.random() returns random / RandomSteps
handleStatusCodes(codes, random) ==
    IF ~Includes(codes, ",")
    THEN IF NotWholeNumber(ParseInt(codes), Trim(codes))
         THEN StatusError
         ELSE createStatusCodeResponse(ParseInt(codes).value)
    ELSE LET items == Split(codes, ",")
             choices == [j \in 1..Len(items) |-> ChoiceOf(items[j])]
         IN  IF \E j \in 1..Len(items) : choices[j].invalid
             THEN StatusError
             ELSE createStatusCodeResponse(weightedChoice(choices, random))

\* c.text(body, status, headers): new Response(body, {status}) throws a
\* RangeError unless 200 <= status <= 599, and the application answers an
\* exception of a handler with 500 Internal Server Error
Text(body, status, headers) ==
    IF status \in 200..599
    THEN [status |-> status, body |-> body, headers |-> headers]
    ELSE [status |-> 500, body |-> sInternalServerError, headers |-> NoHeaders]

\* the codes and the weights the requests are made of
StatusCodeTexts ==
    {<<"2", "0", "0">>, <<"3", "0", "4">>, <<"1", "0", "0">>, <<"9", "9", "9">>, <<"-", "1">>, <<"0", "2", "0", "0">>, <<" ", "2", "0", "1">>, <<"f", "o", "o">>, <<>>}

StatusWeightTexts == {<<>>, <<":", "3">>, <<":", "0", ".", "5">>, <<":", "0">>, <<":", "-", "1">>, <<":", "a", "b", "c">>}

StatusItems == {c \o w : c \in StatusCodeTexts, w \in StatusWeightTexts}

FewStatusItems == {c \o w : c \in {<<"2", "0", "0">>, <<"4", "0", "2">>, <<"f", "o", "o">>}, w \in {<<>>, <<":", "2">>, <<":", "0", ".", "3">>}}

\* the values of :codes: one item, two items, three items
StatusLists ==
    StatusItems
    \cup {a \o <<",">> \o b : a \in StatusItems, b \in StatusItems}
    \cup {a \o <<",">> \o b \o <<",">> \o c :
            a \in FewStatusItems, b \in FewStatusItems, c \in FewStatusItems}

IdleStat == [pc |-> "idle", codes |-> <<>>, status |-> 0, body |-> <<>>, headers |-> NoHeaders]

\* a client requests /status/<codes>
StatusRequest ==
    /\ stat.pc = "idle"
    /\ \E codes \in StatusLists : stat' = [IdleStat EXCEPT !.pc = "sent", !.codes = codes]
    /\ UNCHANGED <<pc, req, work, ops, resp, cli, base, other, seen, chal, redir, cond, docs>>

\* statusCodes.all("/status/:codes")
StatusRoute ==
    /\ stat.pc = "sent"
    /\ \E random \in 0..(RandomSteps - 1) :
         LET result == handleStatusCodes(stat.codes, random)
             res == IF result.error
                    THEN Text(result.body, 400, NoHeaders)
                    ELSE Text(IF result.body # NoData THEN result.body ELSE <<>>,
                              result.status, result.headers)
         IN  stat' = [stat EXCEPT !.pc = "done", !.status = res.status,
                                  !.body = res.body, !.headers = res.headers]
    /\ UNCHANGED <<pc, req, work, ops, resp, cli, base, other, seen, chal, redir, cond, docs>>

\* the client has read the response
StatusClose ==
    /\ stat.pc = "done"
    /\ stat' = IdleStat
    /\ UNCHANGED <<pc, req, work, ops, resp, cli, base, other, seen, chal, redir, cond, docs>>

InitStatus ==
    /\ AuthIdle
    /\ other = NoOther
    /\ seen = NoSeen
    /\ chal = NoChal
    /\ redir = NoRedir
    /\ stat = IdleStat
    /\ cond = NoCond
    /\ docs = NoDocs

NextStatus ==
    \/ StatusRequest
    \/ StatusRoute
    \/ StatusClose

SpecStatus == InitStatus /\ [][NextStatus]_vars

\* the code of a listed item: the text before its ':weight' suffix
ListedCodeText(item) ==
    LET k == FindChar(item, 1, ":") IN IF k = 0 THEN item ELSE SubSeq(item, 1, k - 1)

\* a text that is a decimal integer from its first to its last character
IsDecimalInteger(s) ==
    LET digits == IF Len(s) > 0 /\ s[1] = "-" THEN Tail(s) ELSE s
    IN  Len(digits) > 0 /\ \A i \in 1..Len(digits) : IsDigit(digits[i])

ListedItems == Split(stat.codes, ",")

ListedCodes ==
    {ParseInt(ListedCodeText(ListedItems[j])).value : j \in 1..Len(ListedItems)}

AllItemsDecimal ==
    \A j \in 1..Len(ListedItems) : IsDecimalInteger(Trim(ListedCodeText(ListedItems[j])))

\* C19: the status of the response to /status/<list> is one of the listed
\* codes, whatever the list and the weights; when an item is not entirely a
\* decimal integer the response is 400 with the body "Invalid status code"
C19_ListedCode ==
    stat.pc = "done" =>
        IF AllItemsDecimal
        THEN stat.status \in ListedCodes
        ELSE stat.status = 400 /\ stat.body = sInvalidStatusCode

-----------------------------------------------------------------------------
(* The text of the challenge *)

\* s contains t
Contains(s, t) ==
    \E i \in 1..(Len(s) - Len(t) + 1) : SubSeq(s, i, i + Len(t) - 1) = t

\* the fields a challenge has, in order, each as the text it contributes
ChallengeFields ==
    <<<<"r", "e", "a", "l", "m", "=", "\"">> \o chal.realm \o <<"\"">>,
      <<"n", "o", "n", "c", "e", "=", "\"">> \o chal.nonce \o <<"\"">>>>
    \o (IF chal.qop # Null THEN <<<<"q", "o", "p", "=", "\"">> \o chal.qop \o <<"\"">>>> ELSE <<>>)
    \o (IF chal.algorithm # Null
        THEN <<<<"a", "l", "g", "o", "r", "i", "t", "h", "m", "=">> \o chal.algorithm>>
        ELSE <<>>)
    \o (IF chal.stale THEN <<<<"s", "t", "a", "l", "e", "=", "t", "r", "u", "e">>>> ELSE <<>>)

ChallengeBuilt == chal.pc \in {"built", "parsed"}

\* C20: the header is "Digest " and then realm, nonce, qop (quoted, if
\* present), algorithm (unquoted, if present) and stale=true (if set), in this
\* order and separated by ", "; an absent field contributes no text, and the
\* challenge of the 3-segment route has no algorithm field
C20_FixedFieldOrder ==
    ChallengeBuilt =>
        /\ chal.header = <<"D", "i", "g", "e", "s", "t", " ">> \o Join(ChallengeFields, <<",", " ">>)
        /\ chal.from = "digest3" => ~Contains(chal.header, <<"a", "l", "g", "o", "r", "i", "t", "h", "m">>)

\* C20 witness: the challenge of the 5-segment route with a stale nonce, which
\* has all five fields
C20_Witness ==
    /\ ChallengeBuilt
    /\ chal.from = "digest5"
    /\ chal.qop # Null /\ chal.algorithm # Null /\ chal.stale
    /\ Len(ChallengeFields) = 5
    /\ chal.header = <<"D", "i", "g", "e", "s", "t", " ">> \o Join(ChallengeFields, <<",", " ">>)

-----------------------------------------------------------------------------
(* Incomplete credentials *)

\* the parameters of the header as the handler parsed them
ParsedParams == parseDigestAuth(req.header).params

\* a required key is missing or empty, or the username is not the user of the route
ParsedCredentialsIncomplete ==
    \/ \E k \in {kUsername, kRealm, kNonce, kResponse} : ~Truthy(Get(ParsedParams, k))
    \/ Get(ParsedParams, kUsername) # req.user

\* the nonce of the challenge of the response
ChallengeNonce == Get(parseWWWAuthenticate(resp[1].wwwAuth), kNonce)

\* a 401 without body whose challenge carries a nonce generated for it
FreshChallenge ==
    /\ resp[1].status = 401
    /\ resp[1].body.kind = "null"
    /\ StartsWith(resp[1].wwwAuth, ChallengePrefix)
    /\ ops[Len(ops)] = "nonce"
    /\ ChallengeNonce \in {generateNonce(b) : b \in RandomBytes}

\* C21: on a Digest route that parsed the header, when username, realm, nonce
\* or response is missing or empty, or the username is not the user of the
\* route, the response is 401 with a fresh challenge, whatever the other
\* parameters are
C21_IncompleteNeverAuthenticates ==
    (DigestDone /\ RouteIsValid /\ req.header.present /\ req.header.value # <<>>
        /\ ~parseDigestAuth(req.header).isNull /\ ParsedCredentialsIncomplete)
    => FreshChallenge

\* C21 witness: the response was computed with the user of the route and the
\* header names another user; the handler answered 401 without hashing
C21_Witness ==
    /\ DigestDone /\ RouteIsValid
    /\ cli.kind = "digest" /\ cli.dev.mode = "hdr" /\ cli.dev.key = "username"
    /\ cli.dev.value = <<"v">>
    /\ ~parseDigestAuth(req.header).isNull /\ ParsedCredentialsIncomplete
    /\ HashCalls = 0
    /\ FreshChallenge

-----------------------------------------------------------------------------
(* The form of the expected response *)

\* the header carries a value for key that is not empty
Carries(key) == Get(work.authParams, key) \notin {Undefined, Null, <<>>}

\* the text hashed into the expected response: the qop form with the qop of
\* the route when the header carries nc and cnonce, else the RFC 2069 form
ExpectedKD ==
    IF req.qop \in SupportedQops /\ Carries(kNc) /\ Carries(kCnonce)
    THEN work.HA1 \o <<":">> \o Get(work.authParams, kNonce) \o <<":">>
         \o Get(work.authParams, kNc) \o <<":">> \o Get(work.authParams, kCnonce)
         \o <<":">> \o req.qop \o <<":">> \o work.HA2
    ELSE work.HA1 \o <<":">> \o Get(work.authParams, kNonce) \o <<":">> \o work.HA2

ExpectedResponse == DigestOf(RouteAlgorithm(req), ExpectedKD)

\* C22: the expected response is hash(HA1:nonce:nc:cnonce:qop:HA2), with the
\* qop of the route, exactly when the header carries a non-empty nc and a
\* non-empty cnonce, and hash(HA1:nonce:HA2) in every other case; the request
\* is authenticated exactly when the response of the header equals it
C22_ResponseFormSelection ==
    (req.route \in DigestRoutes /\ work.response # Undefined)
    => /\ work.response = ExpectedResponse
       /\ Done => (resp[1].status = 200 <=> Get(work.authParams, kResponse) = ExpectedResponse)

\* C22 witness: the header names another qop than the route, the response was
\* computed with the qop of the route, and the request is authenticated
C22_Witness ==
    /\ DigestDone
    /\ cli.kind = "digest" /\ cli.dev.mode = "hdr" /\ cli.dev.key = "qop"
    /\ Get(work.authParams, kQop) # req.qop
    /\ Carries(kNc) /\ Carries(kCnonce)
    /\ work.response = ExpectedResponse
    /\ resp[1].status = 200

-----------------------------------------------------------------------------
(* Basic credentials with more than one colon *)

\* the text before and the text after the first ":" of the decoded credentials
FirstColon == FindChar(cli.text, 1, ":")

UserPart == SubSeq(cli.text, 1, FirstColon - 1)

PasswordPart == SubSeq(cli.text, FirstColon + 1, Len(cli.text))

\* C23 (as stated): Basic credentials are split at the first ":" only: the
\* request is answered 200 exactly when the text before it is the user and
\* all the text after it is the password of the route, so a password with a
\* ":" authenticates and user:pass:extra does not authenticate for pass
C23_SplitOnFirstColon ==
    (Done /\ req.route = "basic" /\ cli.kind = "basic" /\ cli.pos = 0 /\ FirstColon > 0)
    => (resp[1].status = 200 <=> (UserPart = req.user /\ PasswordPart = req.passwd))

-----------------------------------------------------------------------------
(* The nonce of a challenge *)

UrlSafeChars ==
    {Chr(n) : n \in (65..90) \cup (97..122) \cup (48..57)} \cup {"-", "_"}

NonceCalls == Len(SelectSeq(ops, LAMBDA o : o = "nonce"))

\* the nonce the client sent, undefined when the header has none
ClientNonce ==
    IF parseDigestAuth(req.header).isNull THEN Undefined ELSE Get(ParsedParams, kNonce)

\* C24: the nonce of every 401 of a Digest route is the URL-safe base64 text
\* without padding of 16 random bytes, 22 characters of A-Z, a-z, 0-9, - and _;
\* it is generated once for the challenge (and not at all for a 200 or a 400),
\* and it is a value of the random bytes alone, not of the nonce of the request
C24_FreshNonce ==
    DigestDone =>
        /\ NonceCalls = (IF resp[1].status = 401 THEN 1 ELSE 0)
        /\ resp[1].status = 401 =>
             /\ Len(ChallengeNonce) = 22
             /\ \A i \in 1..Len(ChallengeNonce) : ChallengeNonce[i] \in UrlSafeChars
             /\ ChallengeNonce \in {generateNonce(b) : b \in RandomBytes}
             /\ ClientNonce \notin {generateNonce(b) : b \in RandomBytes}
                  => ChallengeNonce # ClientNonce

\* C24 witness: a header with a nonce of the client's own and a response that
\* does not match is answered with a nonce in which "/" was replaced by "_"
C24_Witness ==
    /\ DigestDone
    /\ resp[1].status = 401
    /\ HashCalls = 3
    /\ ClientNonce = OwnNonce
    /\ NonceCalls = 1
    /\ Len(ChallengeNonce) = 22
    /\ \E i \in 1..Len(ChallengeNonce) : ChallengeNonce[i] = "_"

-----------------------------------------------------------------------------
(* The result of parseDigestAuth *)

\* no word character of s is followed by "=": the pattern (\w+)=... matches nowhere
NoPairMatches(s) == ~\E i \in 2..Len(s) : s[i] = "=" /\ IsWordChar(s[i - 1])

HasDigestPrefix(v) == StartsWith(v, <<"D", "i", "g", "e", "s", "t", " ">>)

\* C25 (as stated): parseDigestAuth returns null when the header does not
\* start with "Digest " and when it does but no key=value pair matches; when a
\* pair matches it returns the map of the pairs
C25_NullWithoutPairs ==
    (req.route \in DigestRoutes /\ pc # "idle" /\ req.header.present)
    => (parseDigestAuth(req.header).isNull
          <=> \/ ~HasDigestPrefix(req.header.value)
              \/ NoPairMatches(SubSeq(req.header.value, 8, Len(req.header.value))))

\* C25 (amended): parseDigestAuth returns null exactly when the header does
\* not start with "Digest "; when it does, it returns the map of the
\* well-formed pairs, the last occurrence of a key winning, and this map is
\* empty exactly when no pair matches
C25_NullOnlyWithoutPrefix ==
    (req.route \in DigestRoutes /\ pc # "idle" /\ req.header.present)
    => LET parsed == parseDigestAuth(req.header)
           rest == SubSeq(req.header.value, 8, Len(req.header.value))
       IN  /\ parsed.isNull <=> ~HasDigestPrefix(req.header.value)
           /\ ~parsed.isNull => (DOMAIN parsed.params = {} <=> NoPairMatches(rest))
           /\ rest = sRepeatedKey
                => parsed.params = (<<"a">> :> <<"2">>) @@ (<<"b">> :> <<>>)

\* C25 witness: the header "Digest invalid" was parsed to the empty map, no
\* hash was computed and the answer is 401
C25_Witness ==
    /\ DigestDone /\ RouteIsValid
    /\ req.header.value = <<"D", "i", "g", "e", "s", "t", " ", "i", "n", "v", "a", "l", "i", "d">>
    /\ ~parseDigestAuth(req.header).isNull
    /\ DOMAIN parseDigestAuth(req.header).params = {}
    /\ ops = <<"parse", "nonce">>
    /\ resp[1].status = 401

-----------------------------------------------------------------------------
(* The algorithm of the hashes *)

\* the algorithm of the route: MD5 on the 3-segment route
RouteSlot == IF req.route = "digest3" THEN <<"M", "D", "5">> ELSE req.algorithm

\* the digest of the three supported algorithms: the stand-in of MD5 is the
\* first 32 hex characters of SHA-256
SlotDigest(data) ==
    CASE RouteSlot = <<"M", "D", "5">> -> HexDigest("SHA-256", 32, data)
      [] RouteSlot = <<"S", "H", "A", "-", "2", "5", "6">> -> HexDigest("SHA-256", 64, data)
      [] RouteSlot = <<"S", "H", "A", "-", "5", "1", "2">> -> HexDigest("SHA-512", 128, data)

Hashing == pc \in {"ha1", "ha2", "kd"} \/ HashCalls > 0

\* C26: a handler hashes only on a route whose algorithm is MD5, SHA-256 or
\* SHA-512 (MD5 on the 3-segment route), and every hash it computes is the
\* digest of that algorithm: the branch of calculateDigest for other names is
\* never taken
C26_NoSilentDefault ==
    (req.route \in DigestRoutes /\ Hashing)
    => /\ RouteSlot \in SupportedAlgorithms
       /\ work.HA1 # Undefined
            => work.HA1 = SlotDigest(A1(work.authParams, req.user, req.passwd))
       /\ work.HA2 # Undefined => work.HA2 = SlotDigest(A2(req.qop, req.method, work.uri))
       /\ work.response # Undefined
            => work.response = SlotDigest(KD(work.authParams, req.qop, work.HA1, work.HA2))

\* C26 witness: the 3-segment route has computed its three hashes with the
\* stand-in of MD5 although the header names SHA-256
C26_Witness ==
    /\ DigestDone
    /\ req.route = "digest3"
    /\ HashCalls = 3
    /\ Get(work.authParams, kAlgorithm) = <<"S", "H", "A", "-", "2", "5", "6">>
    /\ work.HA2 = HexDigest("SHA-256", 32, A2(req.qop, req.method, work.uri))

-----------------------------------------------------------------------------
(* The staleness policy of the 5-segment route *)

\* the values of stale_after that are a decimal integer <= 0
NotPositive == {<<"0">>, <<"-", "1">>}

\* the client of the tests with nothing changed
Faithful ==
    /\ cli.kind = "digest" /\ cli.variant = "helper"
    /\ cli.dev.mode = "none" /\ cli.changed = "none"

-----------------------------------------------------------------------------
(* Invalid redirect counts *)

\* a text that is digits only and denotes an integer >= 1
IsCountText(s) ==
    /\ Len(s) > 0
    /\ \A i \in 1..Len(s) : IsDigit(s[i])
    /\ \E i \in 1..Len(s) : s[i] # "0"

\* the response to the first request of a chain
FirstResponse == redir.pc = "response" /\ redir.url = redir.start.url

\* C28 (as stated): on the three redirect routes a count that is not entirely
\* a decimal integer >= 1 (zero, negative, no number, digits followed by other
\* characters) is answered 400 without Location
C28_InvalidCountRejected ==
    (FirstResponse /\ ~IsCountText(redir.start.n))
    => (redir.status = 400 /\ redir.location = Undefined)

-----------------------------------------------------------------------------
(* GET /etag/:etag: one request with its conditional headers, the handler, the response *)

\* the text the pattern \s*(W\/)?"?([^"]*)"?\s* captures in part: after the
\* leading whitespace, an optional W/ and an optional quote, the characters up
\* to the next quote
EntryOf(part) ==
    LET a == TrimLeft(part)
        b == IF StartsWith(a, <<"W", "/">>) THEN SubSeq(a, 3, Len(a)) ELSE a
        c == IF Len(b) > 0 /\ b[1] = "\"" THEN Tail(b) ELSE b
        k == FindChar(c, 1, "\"")
    IN  IF k = 0 THEN c ELSE SubSeq(c, 1, k - 1)

\* parseMultiValueHeader(headerStr)
parseMultiValueHeader(headerStr) ==
    IF headerStr = Undefined \/ headerStr = <<>> THEN <<>>
    ELSE LET parts == Split(headerStr, ",")
         IN  [j \in 1..Len(parts) |-> EntryOf(parts[j])]

\* array.includes(x)
ArrayIncludes(array, x) == \E j \in 1..Len(array) : array[j] = x

\* If-Match consulted before If-None-Match
EtagDecisionIfMatchFirst(etag, ifNoneMatch, ifMatch) ==
    IF Len(ifMatch) > 0 /\ ~ArrayIncludes(ifMatch, etag) /\ ~ArrayIncludes(ifMatch, <<"*">>)
    THEN [status |-> 412, etag |-> Undefined, body |-> "null"]
    ELSE IF Len(ifNoneMatch) > 0
            /\ (ArrayIncludes(ifNoneMatch, etag) \/ ArrayIncludes(ifNoneMatch, <<"*">>))
    THEN [status |-> 304, etag |-> etag, body |-> "null"]
    ELSE [status |-> 200, etag |-> etag, body |-> "json"]

\* the branches of the handler: the status, the ETag header and the kind of body
EtagDecision(etag, ifNoneMatch, ifMatch) ==
    IF Len(ifNoneMatch) > 0
    THEN IF ArrayIncludes(ifNoneMatch, etag) \/ ArrayIncludes(ifNoneMatch, <<"*">>)
         THEN [status |-> 304, etag |-> etag, body |-> "null"]
         ELSE [status |-> 200, etag |-> etag, body |-> "json"]
    ELSE IF Len(ifMatch) > 0 /\ ~ArrayIncludes(ifMatch, etag) /\ ~ArrayIncludes(ifMatch, <<"*">>)
    THEN [status |-> 412, etag |-> Undefined, body |-> "null"]
    ELSE [status |-> 200, etag |-> etag, body |-> "json"]

\* the etags of the path and the values of the two headers
EtagParams == {<<"a">>, <<"b">>, <<"*">>}

ConditionalHeaders ==
    {Undefined, <<>>, <<"a">>, <<"\"", "a", "\"">>, <<"W", "/", "\"", "a", "\"">>, <<"*">>, <<"\"", "b", "\"">>, <<"\"", "b", "\"", ",", " ", "\"", "a", "\"">>, <<"b", " ", ",", "a">>, <<"c", ",", "W", "/", "b">>, <<"\"">>}

IdleCond ==
    [pc |-> "idle", etag |-> <<>>, ifNoneMatch |-> Undefined, ifMatch |-> Undefined,
     status |-> 0, etagHeader |-> Undefined, body |-> "null"]

\* a client requests /etag/<etag>
EtagRequest ==
    /\ cond.pc = "idle"
    /\ \E etag \in EtagParams, inm \in ConditionalHeaders, im \in ConditionalHeaders :
          cond' = [IdleCond EXCEPT !.pc = "sent", !.etag = etag, !.ifNoneMatch = inm,
                                   !.ifMatch = im]
    /\ UNCHANGED <<pc, req, work, ops, resp, cli, base, other, seen, chal, redir, stat, docs>>

\* responseInspection.get("/etag/:etag")
EtagRoute ==
    /\ cond.pc = "sent"
    /\ LET ifNoneMatch == parseMultiValueHeader(cond.ifNoneMatch)
           ifMatch == parseMultiValueHeader(cond.ifMatch)
           res == EtagDecision(cond.etag, ifNoneMatch, ifMatch)
       IN  cond' = [cond EXCEPT !.pc = "done", !.status = res.status,
                                !.etagHeader = res.etag, !.body = res.body]
    /\ UNCHANGED <<pc, req, work, ops, resp, cli, base, other, seen, chal, redir, stat, docs>>

\* the client has read the response
EtagClose ==
    /\ cond.pc = "done"
    /\ cond' = IdleCond
    /\ UNCHANGED <<pc, req, work, ops, resp, cli, base, other, seen, chal, redir, stat, docs>>

InitEtag ==
    /\ AuthIdle
    /\ other = NoOther
    /\ seen = NoSeen
    /\ chal = NoChal
    /\ redir = NoRedir
    /\ stat = NoStat
    /\ cond = IdleCond
    /\ docs = NoDocs

NextEtag ==
    \/ EtagRequest
    \/ EtagRoute
    \/ EtagClose

SpecEtag == InitEtag /\ [][NextEtag]_vars

\* the entries of the two headers of the request
NoneMatchEntries == parseMultiValueHeader(cond.ifNoneMatch)

MatchEntries == parseMultiValueHeader(cond.ifMatch)

Matches(entries) == \E j \in 1..Len(entries) : entries[j] \in {cond.etag, <<"*">>}

\* C29: when If-None-Match has an entry the response is 304 if an entry is the
\* etag or "*" and 200 if none is, whatever If-Match says; when it has none,
\* the response is 412 exactly when If-Match has entries and none is the etag
\* or "*", and 200 otherwise; every 200 and 304 carries ETag: <etag>
C29_ConditionalPrecedence ==
    cond.pc = "done" =>
        /\ Len(NoneMatchEntries) > 0
             => cond.status = (IF Matches(NoneMatchEntries) THEN 304 ELSE 200)
        /\ Len(NoneMatchEntries) = 0
             => cond.status = (IF Len(MatchEntries) > 0 /\ ~Matches(MatchEntries)
                               THEN 412 ELSE 200)
        /\ cond.status \in {200, 304} => cond.etagHeader = cond.etag
        /\ (cond.ifNoneMatch = <<"\"", "b", "\"", ",", " ", "\"", "a", "\"">> /\ cond.etag = <<"a">>) => cond.status = 304
        /\ (cond.ifNoneMatch = <<"W", "/", "\"", "a", "\"">> /\ cond.etag = <<"a">>) => cond.status = 304

\* C29 witness: If-None-Match has an entry that is not the etag and If-Match
\* has one that is not the etag either; the response is 200, not 412
C29_Witness ==
    /\ cond.pc = "done"
    /\ cond.etag = <<"a">>
    /\ cond.ifNoneMatch = <<"\"", "b", "\"">>
    /\ cond.ifMatch = <<"\"", "b", "\"">>
    /\ cond.status = 200
    /\ cond.etagHeader = <<"a">>

-----------------------------------------------------------------------------
(* GET /spec.json: requests in flight that share the imported object *)

\* the number of requests in flight
MaxInFlight == 2

SpecHosts == {<<"a", ".", "t", "e", "s", "t">>, <<"b", ".", "t", "e", "s", "t", ":", "8", "0", "8", "0">>}

SpecProtocols == {<<"h", "t", "t", "p", ":">>, <<"h", "t", "t", "p", "s", ":">>}

\* new URL(c.req.url).protocol === "https:" ? ["https"] : ["http"]
SchemesOf(protocol) == IF protocol = <<"h", "t", "t", "p", "s", ":">> THEN <<<<"h", "t", "t", "p", "s">>>> ELSE <<<<"h", "t", "t", "p">>>>

\* JSON.stringify(spec), of which host and schemes are the members modelled
Stringify(spec) ==
    <<"{", "\"", "h", "o", "s", "t", "\"", ":", "\"">> \o spec.host \o <<"\"", ",", "\"", "s", "c", "h", "e", "m", "e", "s", "\"", ":", "[", "\"">> \o spec.schemes[1] \o <<"\"", "]", "}">>

\* await c.res.json(): the object a text of Stringify denotes
ParseJson(text) ==
    LET afterHost == SubSeq(text, 10, Len(text))
        hostEnd == FindChar(afterHost, 1, "\"")
        afterSchemes == SubSeq(afterHost, hostEnd + 14, Len(afterHost))
        schemeEnd == FindChar(afterSchemes, 1, "\"")
    IN  [host |-> SubSeq(afterHost, 1, hostEnd - 1),
         schemes |-> <<SubSeq(afterSchemes, 1, schemeEnd - 1)>>]

\* JSON.stringify(obj, null, 2)
StringifyPretty(obj) ==
    <<"{", "\n">> \o <<" ", " ", "\"", "h", "o", "s", "t", "\"", ":", " ", "\"">> \o obj.host \o <<"\"", ",", "\n">>
    \o <<" ", " ", "\"", "s", "c", "h", "e", "m", "e", "s", "\"", ":", " ", "[">> \o <<"\n">> \o <<" ", " ", " ", " ", "\"">> \o obj.schemes[1] \o <<"\"", "\n">>
    \o <<" ", " ", "]">> \o <<"\n", "}">>

IdleDoc == [pc |-> "idle", host |-> <<>>, protocol |-> <<>>, body |-> Undefined]

\* a request to /spec.json arrives
DocArrive(i) ==
    /\ docs.reqs[i].pc = "idle"
    /\ \E host \in SpecHosts, protocol \in SpecProtocols :
          docs' = [docs EXCEPT !.reqs[i] = [IdleDoc EXCEPT !.pc = "handler", !.host = host,
                                                         !.protocol = protocol]]
    /\ UNCHANGED <<pc, req, work, ops, resp, cli, base, other, seen, chal, redir, stat, cond>>

\* the handler with an await between its writes and c.json
SpecJsonAwait(i) ==
    /\ docs.reqs[i].pc = "handler"
    /\ IF docs.reqs[i].body = Undefined
       THEN docs' = [docs EXCEPT !.spec = [host |-> docs.reqs[i].host,
                                          schemes |-> SchemesOf(docs.reqs[i].protocol)],
                                 !.reqs[i].body = Null]
       ELSE docs' = [docs EXCEPT !.reqs[i].pc = "pretty",
                                 !.reqs[i].body = Stringify(docs.spec)]
    /\ UNCHANGED <<pc, req, work, ops, resp, cli, base, other, seen, chal, redir, stat, cond>>

\* app.get("/spec.json"): the writes into the shared object and c.json(spec),
\* which serializes it, in one step
SpecJson(i) ==
    /\ docs.reqs[i].pc = "handler"
    /\ LET spec == [host |-> docs.reqs[i].host, schemes |-> SchemesOf(docs.reqs[i].protocol)]
       IN  docs' = [docs EXCEPT !.spec = spec,
                                !.reqs[i].pc = "pretty",
                                !.reqs[i].body = Stringify(spec)]
    /\ UNCHANGED <<pc, req, work, ops, resp, cli, base, other, seen, chal, redir, stat, cond>>

\* prettyJSON after await next(): the body of the response parsed and written again
PrettyJSON(i) ==
    /\ docs.reqs[i].pc = "pretty"
    /\ docs' = [docs EXCEPT !.reqs[i].pc = "done",
                            !.reqs[i].body = StringifyPretty(ParseJson(docs.reqs[i].body))]
    /\ UNCHANGED <<pc, req, work, ops, resp, cli, base, other, seen, chal, redir, stat, cond>>

\* the response has been sent
DocDepart(i) ==
    /\ docs.reqs[i].pc = "done"
    /\ docs' = [docs EXCEPT !.reqs[i] = IdleDoc]
    /\ UNCHANGED <<pc, req, work, ops, resp, cli, base, other, seen, chal, redir, stat, cond>>

\* the object as imported holds some host and some scheme
InitDocs ==
    /\ AuthIdle
    /\ other = NoOther
    /\ seen = NoSeen
    /\ chal = NoChal
    /\ redir = NoRedir
    /\ stat = NoStat
    /\ cond = NoCond
    /\ \E host \in SpecHosts, protocol \in SpecProtocols :
          docs = [spec |-> [host |-> host, schemes |-> SchemesOf(protocol)],
                  reqs |-> [i \in 1..MaxInFlight |-> IdleDoc]]

NextDocs ==
    \/ \E i \in 1..MaxInFlight : DocArrive(i)
    \/ \E i \in 1..MaxInFlight : SpecJson(i)
    \/ \E i \in 1..MaxInFlight : PrettyJSON(i)
    \/ \E i \in 1..MaxInFlight : DocDepart(i)

SpecDocs == InitDocs /\ [][NextDocs]_vars

\* the scheme of a request, spelled from its protocol
OwnScheme(i) == IF docs.reqs[i].protocol = <<"h", "t", "t", "p", "s", ":">> THEN <<"h", "t", "t", "p", "s">> ELSE <<"h", "t", "t", "p">>

\* C30: under every interleaving of the requests to /spec.json, the body of a
\* response reports the host and the scheme of its own request, before and
\* after prettyJSON
C30_OwnHostAndScheme ==
    \A i \in 1..MaxInFlight :
        /\ docs.reqs[i].pc = "pretty"
             => docs.reqs[i].body
                  = <<"{", "\"", "h", "o", "s", "t", "\"", ":", "\"">> \o docs.reqs[i].host \o <<"\"", ",", "\"", "s", "c", "h", "e", "m", "e", "s", "\"", ":", "[", "\"">> \o OwnScheme(i) \o <<"\"", "]", "}">>
        /\ docs.reqs[i].pc = "done"
             => /\ docs.reqs[i].body
                     = <<"{", "\n">> \o <<" ", " ", "\"", "h", "o", "s", "t", "\"", ":", " ", "\"">> \o docs.reqs[i].host
                       \o <<"\"", ",", "\n">> \o <<" ", " ", "\"", "s", "c", "h", "e", "m", "e", "s", "\"", ":", " ", "[">> \o <<"\n">>
                       \o <<" ", " ", " ", " ", "\"">> \o OwnScheme(i) \o <<"\"", "\n">> \o <<" ", " ", "]">> \o <<"\n", "}">>
                /\ \A h \in SpecHosts \ {docs.reqs[i].host} : ~Contains(docs.reqs[i].body, h)

\* C30 witness: a response is waiting in prettyJSON while the shared object
\* already holds the host and the scheme of another request
C30_Witness ==
    \E i \in 1..MaxInFlight :
        /\ docs.reqs[i].pc = "pretty"
        /\ docs.spec.host # docs.reqs[i].host
        /\ docs.spec.schemes # SchemesOf(docs.reqs[i].protocol)
        /\ docs.reqs[i].body = Stringify([host |-> docs.reqs[i].host,
                                           schemes |-> SchemesOf(docs.reqs[i].protocol)])

====
